---- MODULE Spec2Model ----
(***************************************************************************)
(* Cross-channel inventory reconciliation of multi_channel_lister.         *)
(*                                                                         *)
(* The ledger (tables inventory, webhook_event, product_map) is shared by  *)
(* background tasks that run on one asyncio event loop.  A task runs       *)
(* without interruption between two awaited network calls, so every action *)
(* below is one such segment of a handler, from one suspension point to    *)
(* the next, with every commit it performs.  The database is PostgreSQL    *)
(* at its default isolation (READ COMMITTED): a row read after a           *)
(* suspension shows what other tasks committed meanwhile.                  *)
(***************************************************************************)
EXTENDS Integers, Sequences, FiniteSets, TLC

VARIABLES
    inventory,      \* table inventory: sku -> row, defined on the existing rows
    webhook_event,  \* table webhook_event: event_id -> row, on the existing rows
    task,           \* background tasks: position, notification, locals, result
    now,            \* wall clock, in minutes
    delivered,      \* number of notifications accepted so far
    channels,       \* the two channels: their stock and what they are about to send
    endpoint,       \* the webhook endpoints: the settings and the last response
    ebay_token      \* the cached eBay access tokens and the tokens issued so far

vars == <<inventory, webhook_event, task, now, delivered, channels, endpoint, ebay_token>>

(***************************************************************************)
(* Bounds of the model.                                                    *)
(***************************************************************************)
MaxDeliveries == 2
MaxTime == 6
TaskOrder == <<"t1", "t2">>
Tasks == {TaskOrder[i] : i \in DOMAIN TaskOrder}
Rank(tk) == CHOOSE i \in DOMAIN TaskOrder : TaskOrder[i] = tk
InitOnHand == {0, 1, 3}

ECHO_WINDOW == 5

Max(a, b) == IF a >= b THEN a ELSE b

\* Optional values (Python None / a value).
None == {}
Some(x) == {x}
Val(o) == CHOOSE x \in o : TRUE

(***************************************************************************)
(* Table product_map.  "" is a NULL column.                                *)
(*   A: listed on both channels; B: on Square only; C: on eBay only.       *)
(* Variation "vX", sku "X" and item "iX" belong to no row.                 *)
(***************************************************************************)
ProductMap ==
    [ A |-> [sku |-> "A", square_variation_id |-> "vA", ebay_offer_id |-> "oA", ebay_listing_id |-> "iA"],
      B |-> [sku |-> "B", square_variation_id |-> "vB", ebay_offer_id |-> "",   ebay_listing_id |-> ""],
      C |-> [sku |-> "C", square_variation_id |-> "",   ebay_offer_id |-> "oC", ebay_listing_id |-> "iC"] ]

Skus == DOMAIN ProductMap \cup {"X"}

\* select(ProductMap).where(square_variation_id == var_id): the skus found.
PmBySquareVariation(var_id) ==
    {s \in DOMAIN ProductMap : ProductMap[s].square_variation_id = var_id}

\* A slip: the listing id is tried before the sku.
LookupProductMap_ItemFirst(sku, item_id) ==
    IF item_id # "" /\ \E s \in DOMAIN ProductMap : ProductMap[s].ebay_listing_id = item_id
    THEN {s \in DOMAIN ProductMap : ProductMap[s].ebay_listing_id = item_id}
    ELSE IF sku \in DOMAIN ProductMap THEN {sku} ELSE {}

\* _lookup_product_map: by sku first, then by ebay_listing_id = item_id.
LookupProductMap(sku, item_id) ==
    IF sku # "" /\ sku \in DOMAIN ProductMap THEN {sku}
    ELSE IF item_id # ""
         THEN {s \in DOMAIN ProductMap : ProductMap[s].ebay_listing_id = item_id}
         ELSE {}

(***************************************************************************)
(* Table inventory.                                                        *)
(***************************************************************************)
\* A slip: the row of a sku seen for the first time starts with stock.
NewInventory_Stocked == [on_hand |-> 3, last_source |-> "", last_source_at |-> None]

NewInventory == [on_hand |-> 0, last_source |-> "", last_source_at |-> None]

\* A slip: the row is not read; the handler works on a new one.
GetOrCreateInv_IgnoresRow(inv, sku) == NewInventory

\* db.get(Inventory, sku), creating the row with on_hand = 0 when absent.
GetOrCreateInv(inv, sku) == IF sku \in DOMAIN inv THEN inv[sku] ELSE NewInventory

\* A slip: the source of the write is stamped on every row.
PutInv_StampsAll(inv, sku, row) ==
    [s \in DOMAIN inv \cup {sku} |->
        IF s = sku THEN row
        ELSE [inv[s] EXCEPT !.last_source = row.last_source, !.last_source_at = row.last_source_at]]

PutInv(inv, sku, row) == [s \in DOMAIN inv \cup {sku} |-> IF s = sku THEN row ELSE inv[s]]

(***************************************************************************)
(* Table webhook_event.                                                    *)
(***************************************************************************)
NewEvent == [applied_inventory |-> FALSE, ebay_synced |-> FALSE]

\* A slip: the row is written anew although it exists.
GetOrCreateEvent_Overwrites(ev, id) == [k \in DOMAIN ev \cup {id} |-> IF k = id THEN NewEvent ELSE ev[k]]

\* db.get(WebhookEvent, event_id), inserting the row when absent.
GetOrCreateEvent(ev, id) == [k \in DOMAIN ev \cup {id} |-> IF k \in DOMAIN ev THEN ev[k] ELSE NewEvent]

SetApplied(ev, id) == [ev EXCEPT ![id].applied_inventory = TRUE]

\* A slip: the outcome of the update is not looked at.
SetSynced_AlwaysTrue(ev, id, ok) == [ev EXCEPT ![id].ebay_synced = TRUE]

SetSynced(ev, id, ok) == [ev EXCEPT ![id].ebay_synced = ok]

(***************************************************************************)
(* Notifications.  A Square notification carries event_id and either a     *)
(* completed payment (the order's line items are what Square returns for   *)
(* its order id) or inventory counts; an eBay notification is the parsed   *)
(* EbayPlatformEvent.  entries: <<[id, qty, state]>>.                      *)
(***************************************************************************)
Entry(id, qty, state) == [id |-> id, qty |-> qty, state |-> state]

SqOrder(eid, lines) ==
    [channel |-> "square", kind |-> "order", event_id |-> eid, entries |-> lines,
     sku |-> "", item_id |-> "", quantity |-> None, quantity_sold |-> None,
     quantity_purchased |-> None, malformed |-> FALSE]

SqInventory(eid, changes) ==
    [channel |-> "square", kind |-> "inventory", event_id |-> eid, entries |-> changes,
     sku |-> "", item_id |-> "", quantity |-> None, quantity_sold |-> None,
     quantity_purchased |-> None, malformed |-> FALSE]

Ebay(name, corr, sku, item, q, qs, qp) ==
    [channel |-> "ebay", kind |-> name, event_id |-> corr, entries |-> <<>>,
     sku |-> sku, item_id |-> item, quantity |-> q, quantity_sold |-> qs,
     quantity_purchased |-> qp, malformed |-> FALSE]

\* A body that ET.fromstring rejects: whatever the sender meant by it, the
\* handler gets no field of it.
Unparsable(n) == [n EXCEPT !.malformed = TRUE]

NoNotification == SqOrder("", <<>>)

\* event_id of a notification: Square's own id; for eBay the CorrelationID, or
\* "ebay_platform:<event>:<sku or nosku>:<item or noitem>" when it has none.
EventKey(n) ==
    IF n.channel = "square" \/ n.event_id # ""
    THEN <<n.event_id>>
    ELSE <<"ebay_platform", n.kind,
           IF n.sku # "" THEN n.sku ELSE "nosku",
           IF n.item_id # "" THEN n.item_id ELSE "noitem">>

(***************************************************************************)
(* Quantity computations.                                                  *)
(***************************************************************************)
\* A slip: the decrement is not clamped.
SaleAfter_Unclamped(before, qty_sold) == before - qty_sold

\* SALE: after = max(before - qty_sold, 0)
SaleAfter(before, qty_sold) == Max(before - qty_sold, 0)

\* Square IN_STOCK count: after = max(qty, 0)
CountAfter(qty) == Max(qty, 0)

\* A slip: the quantity sold is not subtracted.
Available_IgnoresSold(quantity, quantity_sold) == Max(quantity, 0)

\* eBay ItemRevised: available = max(quantity - quantity_sold, 0)
Available(quantity, quantity_sold) == Max(quantity - quantity_sold, 0)

\* A slip: the guard does not compare the quantity.
EchoFromEbay_AnyValue(row, t, qty) ==
    /\ row.last_source = "ebay"
    /\ row.last_source_at # None
    /\ t - Val(row.last_source_at) <= ECHO_WINDOW

\* The echo guard of the Square inventory handler.
EchoFromEbay(row, t, qty) ==
    /\ row.last_source = "ebay"
    /\ row.last_source_at # None
    /\ t - Val(row.last_source_at) <= ECHO_WINDOW
    /\ row.on_hand = qty

Item(sku, qty) == [sku |-> sku, offer_id |-> ProductMap[sku].ebay_offer_id, qty |-> qty]

Change(sku, before, after) == [sku |-> sku, before |-> before, after |-> after]

\* _sync_all_ebay_offers_from_db: every mapping with an offer id, at its
\* current on_hand (0 without an inventory row), in sku order.
RECURSIVE SyncItems(_, _)
SyncItems(inv, skus) ==
    IF skus = <<>> THEN <<>>
    ELSE LET s == Head(skus)
             rest == SyncItems(inv, Tail(skus))
         IN  IF ProductMap[s].ebay_offer_id = "" THEN rest
             ELSE <<Item(s, IF s \in DOMAIN inv THEN inv[s].on_hand ELSE 0)>> \o rest

SyncAllEbayOffersFromDb(inv) == SyncItems(inv, <<"A", "B", "C">>)

(***************************************************************************)
(* apply_square_order_and_sync_ebay, lines 221-257: the order's line items *)
(* are summed per variation, then each mapped variation is decremented.    *)
(* The loop state is [inv, updated, items].                                *)
(***************************************************************************)
RECURSIVE AddSold(_, _, _)
AddSold(sold, var_id, qty) ==
    IF sold = <<>> THEN <<Entry(var_id, qty, "")>>
    ELSE IF Head(sold).id = var_id
         THEN <<Entry(var_id, Head(sold).qty + qty, "")>> \o Tail(sold)
         ELSE <<Head(sold)>> \o AddSold(Tail(sold), var_id, qty)

RECURSIVE SoldByVariation(_)
SoldByVariation(lines) ==
    IF lines = <<>> THEN <<>>
    ELSE LET li == lines[Len(lines)]
             sold == SoldByVariation(SubSeq(lines, 1, Len(lines) - 1))
         IN  IF li.id # "" /\ li.qty > 0 THEN AddSold(sold, li.id, li.qty) ELSE sold

\* A slip: eBay is sent the quantity read, not the quantity written.
DecrementOne_PushesBefore(st, var_id, qty_sold, t) ==
    LET pms == PmBySquareVariation(var_id) IN
    IF pms = {} THEN st
    ELSE LET sku == CHOOSE s \in pms : TRUE
             row == GetOrCreateInv(st.inv, sku)
             before == row.on_hand
             after == SaleAfter(before, qty_sold)
         IN  [inv |-> PutInv(st.inv, sku,
                        [on_hand |-> after, last_source |-> "square", last_source_at |-> Some(t)]),
              updated |-> Append(st.updated, Change(sku, before, after)),
              items |-> IF ProductMap[sku].ebay_offer_id # ""
                        THEN Append(st.items, Item(sku, before)) ELSE st.items]

DecrementOne(st, var_id, qty_sold, t) ==
    LET pms == PmBySquareVariation(var_id) IN
    IF pms = {} THEN st
    ELSE LET sku == CHOOSE s \in pms : TRUE
             row == GetOrCreateInv(st.inv, sku)
             before == row.on_hand
             after == SaleAfter(before, qty_sold)
         IN  [inv |-> PutInv(st.inv, sku,
                        [on_hand |-> after, last_source |-> "square", last_source_at |-> Some(t)]),
              updated |-> Append(st.updated, Change(sku, before, after)),
              items |-> IF ProductMap[sku].ebay_offer_id # ""
                        THEN Append(st.items, Item(sku, after)) ELSE st.items]

RECURSIVE DecrementAll(_, _, _)
DecrementAll(st, sold, t) ==
    IF sold = <<>> THEN st
    ELSE DecrementAll(DecrementOne(st, Head(sold).id, Head(sold).qty, t), Tail(sold), t)

ApplyOrder(inv, lines, t) ==
    DecrementAll([inv |-> inv, updated |-> <<>>, items |-> <<>>], SoldByVariation(lines), t)

(***************************************************************************)
(* apply_square_inventory_change_and_sync_ebay, lines 296-342: one pass of *)
(* the loop over the changes.                                              *)
(***************************************************************************)
\* A slip: a count is taken whatever its state.
ChangeOne_AnyState(st, ch, t) ==
    LET pms == PmBySquareVariation(ch.id) IN
    IF ch.id = "" \/ pms = {} THEN st
    ELSE LET sku == CHOOSE s \in pms : TRUE
             row == IF sku \in DOMAIN st.inv THEN st.inv[sku]
                    ELSE [on_hand |-> 0, last_source |-> "", last_source_at |-> None]
             before == row.on_hand
             after == CountAfter(ch.qty)
         IN  IF before = after
             THEN [st EXCEPT !.inv = PutInv(st.inv, sku, row)]
             ELSE [inv |-> PutInv(st.inv, sku,
                             [on_hand |-> after, last_source |-> "square", last_source_at |-> Some(t)]),
                   updated |-> Append(st.updated, Change(sku, before, after)),
                   items |-> IF ProductMap[sku].ebay_offer_id # ""
                             THEN Append(st.items, Item(sku, after)) ELSE st.items]

\* A slip: a count equal to on_hand is written and pushed like any other.
ChangeOne_NoSameValueSkip(st, ch, t) ==
    LET pms == PmBySquareVariation(ch.id) IN
    IF (ch.state # "" /\ ch.state # "IN_STOCK") \/ ch.id = "" \/ pms = {} THEN st
    ELSE LET sku == CHOOSE s \in pms : TRUE
             row == GetOrCreateInv(st.inv, sku)
             created == PutInv(st.inv, sku, row)
             before == row.on_hand
             after == CountAfter(ch.qty)
         IN  IF EchoFromEbay(row, t, ch.qty)
             THEN [st EXCEPT !.inv = created]
             ELSE [inv |-> PutInv(st.inv, sku,
                             [on_hand |-> after, last_source |-> "square", last_source_at |-> Some(t)]),
                   updated |-> Append(st.updated, Change(sku, before, after)),
                   items |-> IF ProductMap[sku].ebay_offer_id # ""
                             THEN Append(st.items, Item(sku, after)) ELSE st.items]

ChangeOne(st, ch, t) ==
    LET pms == PmBySquareVariation(ch.id) IN
    IF (ch.state # "" /\ ch.state # "IN_STOCK") \/ ch.id = "" \/ pms = {} THEN st
    ELSE LET sku == CHOOSE s \in pms : TRUE
             row == GetOrCreateInv(st.inv, sku)
             created == PutInv(st.inv, sku, row)
             before == row.on_hand
             after == CountAfter(ch.qty)
         IN  IF EchoFromEbay(row, t, ch.qty) \/ before = after
             THEN [st EXCEPT !.inv = created]
             ELSE [inv |-> PutInv(st.inv, sku,
                             [on_hand |-> after, last_source |-> "square", last_source_at |-> Some(t)]),
                   updated |-> Append(st.updated, Change(sku, before, after)),
                   items |-> IF ProductMap[sku].ebay_offer_id # ""
                             THEN Append(st.items, Item(sku, after)) ELSE st.items]

RECURSIVE ChangeAll(_, _, _)
ChangeAll(st, changes, t) ==
    IF changes = <<>> THEN st
    ELSE ChangeAll(ChangeOne(st, Head(changes), t), Tail(changes), t)

ApplyChanges(inv, changes, t) ==
    ChangeAll([inv |-> inv, updated |-> <<>>, items |-> <<>>], changes, t)

(***************************************************************************)
(* apply_ebay_item_revised_and_sync_square and                             *)
(* apply_ebay_fixed_price_txn_and_sync_square: the new row of the sku.     *)
(***************************************************************************)
ItemRevisedRow(quantity, quantity_sold, t) ==
    [on_hand |-> Available(quantity, quantity_sold), last_source |-> "ebay", last_source_at |-> Some(t)]

\* A slip: the decrement is taken from an empty stock, not from the row.
FixedPriceTxnRow_FromZero(before, qty_purchased, t) ==
    [on_hand |-> SaleAfter(0, qty_purchased), last_source |-> "ebay", last_source_at |-> Some(t)]

FixedPriceTxnRow(before, qty_purchased, t) ==
    [on_hand |-> SaleAfter(before, qty_purchased), last_source |-> "ebay", last_source_at |-> Some(t)]

(***************************************************************************)
(* The notifications the channels may send.  A redelivery is the same      *)
(* notification sent again.                                                *)
(***************************************************************************)
SquareNotifications ==
    { SqOrder("sq-o1", <<Entry("vA", 1, ""), Entry("vA", 1, "")>>),
      SqOrder("sq-o2", <<Entry("vX", 1, "")>>),
      SqInventory("sq-i1", <<Entry("vA", 1, "IN_STOCK")>>),
      SqInventory("sq-i2", <<Entry("vA", -1, "IN_STOCK"), Entry("vB", 1, "IN_STOCK"), Entry("vA", 1, "SOLD")>>),
      SqInventory("sq-i3", <<Entry("vX", 1, "IN_STOCK")>>) }

EbayNotifications ==
    { Ebay("ItemRevised", "eb-r1", "A", "iA", Some(3), Some(2), None),
      Ebay("ItemRevised", "eb-r2", "A", "iA", Some(1), Some(2), None),
      Ebay("ItemRevised", "eb-r3", "A", "iA", None, None, None),
      Ebay("FixedPriceTransaction", "eb-f1", "A", "iA", Some(3), Some(1), Some(2)),
      Ebay("FixedPriceTransaction", "eb-f2", "A", "iA", None, None, None),
      Ebay("ItemRevised", "eb-u1", "X", "iX", Some(1), None, None),
      Ebay("ItemRevised", "eb-u2", "C", "iC", Some(2), None, None),
      Unparsable(Ebay("FixedPriceTransaction", "eb-f1", "A", "iA", Some(3), Some(1), Some(2))) }

Notifications == SquareNotifications \cup EbayNotifications

(***************************************************************************)
(* Background tasks.                                                       *)
(*   pc: "idle", "scheduled" (accepted by the endpoint, not yet started),  *)
(*       "retrieve_order", "ebay_push", "ebay_resync", "square_set_stock"  *)
(*       (suspended in that awaited call), "done".                         *)
(*   calls: the outbound set-quantity calls issued, each with its outcome  *)
(*       ("pending" while the task is suspended in it).                    *)
(*   result: what the handler returned ("raised": it ended by exception).  *)
(***************************************************************************)
NoResult == [action |-> "", ebay_synced |-> FALSE, square |-> "", updated |-> <<>>]

IdleTask == [pc |-> "idle", n |-> NoNotification, calls |-> <<>>, result |-> NoResult]

\* A slip: the update goes to the channel the event came from.
EbayCall_ToOrigin(items) == [to |-> "square", items |-> items, outcome |-> "pending"]

\* _ebay_bulk_update_quantity(items)
EbayCall(items) == [to |-> "ebay", items |-> items, outcome |-> "pending"]

\* set_stock_exact(variation_id, new_quantity) as one item: the sku of the
\* mapping and the target quantity.
SquareCall(sku, qty) == [to |-> "square", items |-> <<Item(sku, qty)>>, outcome |-> "pending"]

Outcome(ok) == IF ok THEN "ok" ELSE "failed"

Returned(calls, ok) == [calls EXCEPT ![Len(calls)].outcome = Outcome(ok)]

Done(tk, ev, inv, calls, result) ==
    /\ webhook_event' = ev
    /\ inventory' = inv
    /\ task' = [task EXCEPT ![tk].pc = "done", ![tk].calls = calls, ![tk].result = result]

Suspend(tk, pc, ev, inv, calls, result) ==
    /\ webhook_event' = ev
    /\ inventory' = inv
    /\ task' = [task EXCEPT ![tk].pc = pc, ![tk].calls = calls, ![tk].result = result]

\* The channels as far as the engine is concerned with them: the quantity
\* each holds for a sku, the notifications it has yet to send, the number of
\* echoes sent and of quantity writes received, and whether the external
\* change has happened.
NoChannels ==
    [square |-> <<>>, ebay |-> <<>>, pending |-> {}, echoes |-> 0, writes |-> 0, changed |-> FALSE]

\* The token caches, _ebay_cached_token of the webhook module and
\* EbayClient._cached_token, both empty, and no token issued yet.
Caches == {"webhook", "client"}

NoTokens == [cached |-> [c \in Caches |-> None], issued |-> 0]

\* The settings the endpoints read and the status of their last response
\* (0: none yet).
Settings(key, url) == [square_webhook_signature_key |-> key, square_webhook_notification_url |-> url]

NoEndpoint == [settings |-> Settings("", ""), status |-> 0]

Init ==
    /\ inventory \in {[A |-> [NewInventory EXCEPT !.on_hand = a], C |-> [NewInventory EXCEPT !.on_hand = 1]] :
                        a \in InitOnHand}
    /\ webhook_event = <<>>
    /\ task = [tk \in Tasks |-> IdleTask]
    /\ now = 0
    /\ delivered = 0
    /\ channels = NoChannels
    /\ endpoint = NoEndpoint
    /\ ebay_token = NoTokens

\* The endpoints: the notification is accepted and its processing is
\* scheduled as a background task; the response does not wait for it.
Deliver(tk, n) ==
    /\ delivered < MaxDeliveries
    /\ task[tk].pc \in {"idle", "done"}
    /\ \A other \in Tasks : task[other].pc \in {"idle", "done"} => Rank(tk) <= Rank(other)
    /\ task' = [task EXCEPT ![tk] = [IdleTask EXCEPT !.pc = "scheduled", !.n = n]]
    /\ delivered' = delivered + 1
    /\ UNCHANGED <<inventory, webhook_event, now, channels, endpoint, ebay_token>>

\* Time passes.
Tick(d) ==
    /\ now + d <= MaxTime
    /\ now' = now + d
    /\ UNCHANGED <<inventory, webhook_event, task, delivered, channels, endpoint, ebay_token>>

(***************************************************************************)
(* Square handlers, lines 209-215 and 283-289: the event was applied by an *)
(* earlier delivery.                                                       *)
(***************************************************************************)
SquareAlreadyApplied(tk, ev) ==
    LET id == EventKey(task[tk].n)
        items == SyncAllEbayOffersFromDb(inventory)
    IN  IF ev[id].ebay_synced
        THEN Done(tk, ev, inventory, <<>>,
                  [NoResult EXCEPT !.action = "already_applied", !.ebay_synced = TRUE])
        ELSE IF items = <<>>
             THEN Done(tk, SetSynced(ev, id, TRUE), inventory, <<>>,
                       [NoResult EXCEPT !.action = "already_applied", !.ebay_synced = TRUE])
             ELSE Suspend(tk, "ebay_resync", ev, inventory, <<EbayCall(items)>>, NoResult)

\* apply_square_order_and_sync_ebay up to the await of _square_retrieve_order.
StartSquareOrder(tk) ==
    /\ task[tk].pc = "scheduled"
    /\ task[tk].n.channel = "square"
    /\ task[tk].n.kind = "order"
    /\ LET id == EventKey(task[tk].n)
           ev == GetOrCreateEvent(webhook_event, id)
       IN  IF ev[id].applied_inventory
           THEN SquareAlreadyApplied(tk, ev)
           ELSE Suspend(tk, "retrieve_order", ev, inventory, <<>>, NoResult)
    /\ UNCHANGED <<now, delivered, channels, endpoint, ebay_token>>

\* The commits of lines 260 and 271 and what lies between them.
SquareApplied(tk, ev0, st) ==
    LET id == EventKey(task[tk].n)
        ev == SetApplied(ev0, id)
        res == [NoResult EXCEPT !.action = "applied", !.updated = st.updated]
    IN  IF st.items # <<>>
        THEN Suspend(tk, "ebay_push", ev, st.inv, <<EbayCall(st.items)>>, res)
        ELSE Done(tk, SetSynced(ev, id, TRUE), st.inv, <<>>, [res EXCEPT !.ebay_synced = TRUE])

\* A slip: the event is marked applied when the order could not be read.
OrderRetrieved_MarksApplied(tk, ok) ==
    /\ task[tk].pc = "retrieve_order"
    /\ IF ok
       THEN SquareApplied(tk, webhook_event, ApplyOrder(inventory, task[tk].n.entries, now))
       ELSE Done(tk, SetApplied(webhook_event, EventKey(task[tk].n)), inventory, <<>>,
                 [NoResult EXCEPT !.action = "raised"])
    /\ UNCHANGED <<now, delivered, channels, endpoint, ebay_token>>

\* _square_retrieve_order returns the order, or raises.
OrderRetrieved(tk, ok) ==
    /\ task[tk].pc = "retrieve_order"
    /\ IF ok
       THEN SquareApplied(tk, webhook_event, ApplyOrder(inventory, task[tk].n.entries, now))
       ELSE Done(tk, webhook_event, inventory, <<>>, [NoResult EXCEPT !.action = "raised"])
    /\ UNCHANGED <<now, delivered, channels, endpoint, ebay_token>>

\* apply_square_inventory_change_and_sync_ebay up to its first await.
StartSquareInventory(tk) ==
    /\ task[tk].pc = "scheduled"
    /\ task[tk].n.channel = "square"
    /\ task[tk].n.kind = "inventory"
    /\ LET id == EventKey(task[tk].n)
           ev == GetOrCreateEvent(webhook_event, id)
       IN  IF ev[id].applied_inventory
           THEN SquareAlreadyApplied(tk, ev)
           ELSE SquareApplied(tk, ev, ApplyChanges(inventory, task[tk].n.entries, now))
    /\ UNCHANGED <<now, delivered, channels, endpoint, ebay_token>>

\* _ebay_bulk_update_quantity returns or raises, lines 263-271 and 348-356.
EbayPushReturned(tk, ok) ==
    /\ task[tk].pc = "ebay_push"
    /\ Done(tk, SetSynced(webhook_event, EventKey(task[tk].n), ok), inventory,
            Returned(task[tk].calls, ok), [task[tk].result EXCEPT !.ebay_synced = ok])

EbayPushReturns(tk, ok) ==
    /\ EbayPushReturned(tk, ok)
    /\ UNCHANGED <<now, delivered, channels, endpoint, ebay_token>>

\* A slip: the event is marked synced whether the bulk push returned or not.
EbayResyncReturns_MarksSynced(tk, ok) ==
    /\ task[tk].pc = "ebay_resync"
    /\ Done(tk, SetSynced(webhook_event, EventKey(task[tk].n), TRUE), inventory,
            Returned(task[tk].calls, ok),
            [NoResult EXCEPT !.action = IF ok THEN "already_applied" ELSE "raised"])
    /\ UNCHANGED <<now, delivered, channels, endpoint, ebay_token>>

\* The bulk push of a redelivery returns or raises, lines 211-214 and 285-288.
EbayResyncReturns(tk, ok) ==
    /\ task[tk].pc = "ebay_resync"
    /\ IF ok
       THEN Done(tk, SetSynced(webhook_event, EventKey(task[tk].n), TRUE), inventory,
                 Returned(task[tk].calls, ok),
                 [NoResult EXCEPT !.action = "already_applied", !.ebay_synced = TRUE])
       ELSE Done(tk, webhook_event, inventory, Returned(task[tk].calls, ok),
                 [NoResult EXCEPT !.action = "raised"])
    /\ UNCHANGED <<now, delivered, channels, endpoint, ebay_token>>

(***************************************************************************)
(* _process_ebay_platform_event up to the await of set_stock_exact.        *)
(***************************************************************************)
\* A slip: the ignored event is left unapplied.
EbayIgnored_NotApplied(tk, ev, action) ==
    Done(tk, ev, inventory, <<>>, [NoResult EXCEPT !.action = action])

EbayIgnored(tk, ev, action) ==
    Done(tk, SetApplied(ev, EventKey(task[tk].n)), inventory, <<>>, [NoResult EXCEPT !.action = action])

\* A slip: the event row is written before the body is parsed.
EbayParseFailed_CreatesEvent(tk, ev) ==
    Done(tk, ev, inventory, <<>>, [NoResult EXCEPT !.action = "parse_failed"])

\* parse_ebay_platform_notification raised, lines 240-244.
EbayParseFailed(tk, ev) ==
    Done(tk, webhook_event, inventory, <<>>, [NoResult EXCEPT !.action = "parse_failed"])

EbayApply(tk, ev, sku, row) ==
    LET before == GetOrCreateInv(inventory, sku).on_hand IN
    Suspend(tk, "square_set_stock", ev, PutInv(inventory, sku, row),
            <<SquareCall(sku, row.on_hand)>>,
            [NoResult EXCEPT !.action = "applied", !.updated = <<Change(sku, before, row.on_hand)>>])

StartEbayPlatform(tk) ==
    /\ task[tk].pc = "scheduled"
    /\ task[tk].n.channel = "ebay"
    /\ LET n == task[tk].n
           id == EventKey(n)
           ev == GetOrCreateEvent(webhook_event, id)
           pms == LookupProductMap(n.sku, n.item_id)
           sku == CHOOSE s \in pms : TRUE
       IN  IF n.malformed
           THEN EbayParseFailed(tk, ev)
           ELSE IF id \in DOMAIN webhook_event /\ webhook_event[id].applied_inventory
           THEN Done(tk, webhook_event, inventory, <<>>, [NoResult EXCEPT !.action = "duplicate_ignored"])
           ELSE IF pms = {} \/ ProductMap[sku].square_variation_id = ""
           THEN EbayIgnored(tk, ev, "ignored_no_mapping")
           ELSE IF n.kind = "ItemRevised"
           THEN IF n.quantity = None
                THEN EbayIgnored(tk, ev, "ignored_missing_quantity")
                ELSE EbayApply(tk, ev, sku,
                               ItemRevisedRow(Val(n.quantity),
                                              IF n.quantity_sold = None THEN 0 ELSE Val(n.quantity_sold),
                                              now))
           ELSE IF n.kind = "FixedPriceTransaction"
           THEN IF n.quantity_purchased = None
                THEN EbayIgnored(tk, ev, "ignored_missing_quantity_purchased")
                ELSE EbayApply(tk, ev, sku,
                               FixedPriceTxnRow(GetOrCreateInv(inventory, sku).on_hand,
                                                Val(n.quantity_purchased), now))
           ELSE EbayIgnored(tk, ev, "ignored_unhandled_event")
    /\ UNCHANGED <<now, delivered, channels, endpoint, ebay_token>>

\* set_stock_exact returns or raises, lines 329-351.
SquareSetStockReturned(tk, ok) ==
    /\ task[tk].pc = "square_set_stock"
    /\ Done(tk, SetApplied(webhook_event, EventKey(task[tk].n)), inventory,
            Returned(task[tk].calls, ok),
            [task[tk].result EXCEPT !.square = IF ok THEN "updated" ELSE "failed"])

SquareSetStockReturns(tk, ok) ==
    /\ SquareSetStockReturned(tk, ok)
    /\ UNCHANGED <<now, delivered, channels, endpoint, ebay_token>>

\* The process stops, or the task is cancelled, while the task is suspended
\* in an awaited call: nothing that follows the await runs (a cancellation is
\* not an Exception, so no except clause of the handlers catches it), and
\* what was committed before the await stays.
Abort(tk) ==
    /\ task[tk].pc \in {"retrieve_order", "ebay_push", "ebay_resync", "square_set_stock"}
    /\ Done(tk, webhook_event, inventory,
            [i \in DOMAIN task[tk].calls |-> [task[tk].calls[i] EXCEPT !.outcome = "aborted"]],
            [task[tk].result EXCEPT !.action = "raised"])
    /\ UNCHANGED <<now, delivered, channels, endpoint, ebay_token>>

Next ==
    \/ \E tk \in Tasks, n \in Notifications : Deliver(tk, n)
    \/ \E d \in {ECHO_WINDOW, ECHO_WINDOW + 1} : Tick(d)
    \/ \E tk \in Tasks : StartSquareOrder(tk)
    \/ \E tk \in Tasks, ok \in BOOLEAN : OrderRetrieved(tk, ok)
    \/ \E tk \in Tasks : StartSquareInventory(tk)
    \/ \E tk \in Tasks, ok \in BOOLEAN : EbayPushReturns(tk, ok)
    \/ \E tk \in Tasks, ok \in BOOLEAN : EbayResyncReturns(tk, ok)
    \/ \E tk \in Tasks : StartEbayPlatform(tk)
    \/ \E tk \in Tasks, ok \in BOOLEAN : SquareSetStockReturns(tk, ok)
    \/ \E tk \in Tasks : Abort(tk)

Spec == Init /\ [][Next]_vars

(***************************************************************************)
(* The engine and its two channels in a closed loop.  The ledger and the   *)
(* channels agree; one quantity changes on one channel, which notifies the *)
(* engine; a set-quantity call that succeeds sets the quantity the channel *)
(* holds, and the channel reports it back as a notification that restates  *)
(* that quantity (eBay as ItemRevised, Square as an IN_STOCK count).       *)
(***************************************************************************)
MaxEchoes == 4
SoldQty == {1, 2}

EchoId(k) == "echo-" \o ToString(k)

SquareEcho(id, sku, qty) ==
    SqInventory(id, <<Entry(ProductMap[sku].square_variation_id, qty, "IN_STOCK")>>)

EbayEcho(id, sku, qty) ==
    Ebay("ItemRevised", id, sku, ProductMap[sku].ebay_listing_id, Some(qty), None, None)

\* A channel has one more notification to send.
Notify(ch, n) == [ch EXCEPT !.pending = @ \cup {n}]

Echo(ch, n) ==
    IF ch.echoes < MaxEchoes THEN [Notify(ch, n) EXCEPT !.echoes = @ + 1] ELSE ch

\* eBay has carried out bulk_update_price_quantity for the items.
RECURSIVE EbayReceives(_, _)
EbayReceives(ch, items) ==
    IF items = <<>> THEN ch
    ELSE LET it == Head(items)
             written == [ch EXCEPT !.ebay[it.sku] = it.qty, !.writes = @ + 1]
         IN  EbayReceives(Echo(written, EbayEcho(EchoId(ch.echoes + 1), it.sku, it.qty)), Tail(items))

\* A slip: the adjustment is made whatever the count is.
SquareAdjusts_Always(current, target) == TRUE

\* set_stock_exact adjusts the count unless delta == 0.
SquareAdjusts(current, target) == target - current # 0

\* Square has carried out set_stock_exact(variation_id, new_quantity).
SquareReceives(ch, it) ==
    LET target == Max(it.qty, 0)
        written == IF SquareAdjusts(ch.square[it.sku], target)
                   THEN [ch EXCEPT !.square[it.sku] = target, !.writes = @ + 1]
                   ELSE ch
    IN  Echo(written, SquareEcho(EchoId(ch.echoes + 1), it.sku, target))

LoopInit ==
    /\ \E a \in InitOnHand :
          /\ inventory = [A |-> [NewInventory EXCEPT !.on_hand = a], C |-> [NewInventory EXCEPT !.on_hand = 1]]
          /\ channels = [NoChannels EXCEPT !.square = [A |-> a, B |-> 0], !.ebay = [A |-> a, C |-> 1]]
    /\ webhook_event = <<>>
    /\ task = [tk \in Tasks |-> IdleTask]
    /\ now = 0
    /\ delivered = 0
    /\ endpoint = NoEndpoint
    /\ ebay_token = NoTokens

\* The one external change: a count set on Square, a sale on Square, a
\* quantity revised on eBay, a sale on eBay.
Changed(ch) ==
    /\ ~channels.changed
    /\ channels' = [ch EXCEPT !.changed = TRUE]
    /\ UNCHANGED <<inventory, webhook_event, task, now, delivered, endpoint, ebay_token>>

SquareCountSet(r) ==
    /\ r # channels.square["A"]
    /\ Changed(Notify([channels EXCEPT !.square["A"] = r], SquareEcho("x-1", "A", r)))

SquareSold(q) ==
    /\ q <= channels.square["A"]
    /\ Changed(Notify([channels EXCEPT !.square["A"] = @ - q],
                      SqOrder("x-1", <<Entry(ProductMap["A"].square_variation_id, q, "")>>)))

EbayRevised(r) ==
    /\ r # channels.ebay["A"]
    /\ Changed(Notify([channels EXCEPT !.ebay["A"] = r], EbayEcho("x-1", "A", r)))

EbaySold(q) ==
    /\ q <= channels.ebay["A"]
    /\ Changed(Notify([channels EXCEPT !.ebay["A"] = @ - q],
                      Ebay("FixedPriceTransaction", "x-1", "A", ProductMap["A"].ebay_listing_id,
                           None, None, Some(q))))

\* A channel sends a notification and the endpoint accepts it.
LoopDeliver(tk, n) ==
    /\ n \in channels.pending
    /\ task[tk].pc \in {"idle", "done"}
    /\ \A other \in Tasks : task[other].pc \in {"idle", "done"} => Rank(tk) <= Rank(other)
    /\ task' = [task EXCEPT ![tk] = [IdleTask EXCEPT !.pc = "scheduled", !.n = n]]
    /\ delivered' = delivered + 1
    /\ channels' = [channels EXCEPT !.pending = @ \ {n}]
    /\ UNCHANGED <<inventory, webhook_event, now, endpoint, ebay_token>>

LoopEbayPushReturns(tk, ok) ==
    /\ EbayPushReturned(tk, ok)
    /\ channels' = IF ok THEN EbayReceives(channels, task[tk].calls[1].items) ELSE channels
    /\ UNCHANGED <<now, delivered, endpoint, ebay_token>>

LoopSquareSetStockReturns(tk, ok) ==
    /\ SquareSetStockReturned(tk, ok)
    /\ channels' = IF ok THEN SquareReceives(channels, task[tk].calls[1].items[1]) ELSE channels
    /\ UNCHANGED <<now, delivered, endpoint, ebay_token>>

\* The steps of the engine and the deliveries of the channels.
LoopProgress ==
    \/ \E tk \in Tasks : \E n \in channels.pending : LoopDeliver(tk, n)
    \/ \E tk \in Tasks : StartSquareOrder(tk)
    \/ \E tk \in Tasks, ok \in BOOLEAN : OrderRetrieved(tk, ok)
    \/ \E tk \in Tasks : StartSquareInventory(tk)
    \/ \E tk \in Tasks, ok \in BOOLEAN : LoopEbayPushReturns(tk, ok)
    \/ \E tk \in Tasks : StartEbayPlatform(tk)
    \/ \E tk \in Tasks, ok \in BOOLEAN : LoopSquareSetStockReturns(tk, ok)

LoopNext ==
    \/ \E r \in InitOnHand : SquareCountSet(r)
    \/ \E q \in SoldQty : SquareSold(q)
    \/ \E r \in InitOnHand : EbayRevised(r)
    \/ \E q \in SoldQty : EbaySold(q)
    \/ \E d \in {ECHO_WINDOW, ECHO_WINDOW + 1} : Tick(d)
    \/ \E tk \in Tasks : Abort(tk)
    \/ LoopProgress

\* The event loop runs a task that is ready, a channel sends what it has to
\* send, and every awaited call returns or raises (each carries a timeout).
LoopSpec == LoopInit /\ [][LoopNext]_vars /\ WF_vars(LoopProgress)

(***************************************************************************)
(* The Square endpoint with eBay behind it: two counts and a payment for   *)
(* one sku, each handled by its own task; eBay holds what the last bulk    *)
(* update that it answered has set.                                        *)
(***************************************************************************)
PushNotifications ==
    { SqInventory("sq-c1", <<Entry("vA", 1, "IN_STOCK")>>),
      SqInventory("sq-c2", <<Entry("vA", 2, "IN_STOCK")>>),
      SqOrder("sq-c3", <<Entry("vA", 1, "")>>) }

PushNext ==
    \/ \E tk \in Tasks, n \in PushNotifications : Deliver(tk, n)
    \/ \E tk \in Tasks : StartSquareOrder(tk)
    \/ \E tk \in Tasks, ok \in BOOLEAN : OrderRetrieved(tk, ok)
    \/ \E tk \in Tasks : StartSquareInventory(tk)
    \/ \E tk \in Tasks, ok \in BOOLEAN : LoopEbayPushReturns(tk, ok)

PushSpec == LoopInit /\ [][PushNext]_vars

(***************************************************************************)
(* The webhook endpoints with their requests.  A request to the Square     *)
(* endpoint is a body and a signature header.  body.raw names the bytes    *)
(* of the body, body.utf8 tells whether they decode as UTF-8, body.n is    *)
(* the notification the body holds (event_id "" when it holds no event     *)
(* id) and body.payment_status the status of its payment.  HMAC-SHA256 and *)
(* base64 are taken as free of collisions: the signature of a message      *)
(* under a key is the tuple of what went into it.                          *)
(***************************************************************************)
\* str.strip on the strings of the model.
Strip(str) == IF str = " " THEN "" ELSE str

\* str.upper on the strings of the model.
Upper(str) == IF str = "completed" THEN "COMPLETED" ELSE str

\* base64(HMAC-SHA256(key, url + raw_body))
Sign(key, url, raw) == <<"base64", "hmac-sha256", key, url, raw>>

\* verify_square_signature: "true", "false", or "raised" when
\* raw_body.decode("utf-8") fails.
VerifySquareSignature(body, signature, settings) ==
    IF signature = None \/ Val(signature) = <<>> THEN "false"
    ELSE LET key == Strip(settings.square_webhook_signature_key)
             url == Strip(settings.square_webhook_notification_url)
         IN  IF key = "" \/ url = "" THEN "false"
             ELSE IF ~body.utf8 THEN "raised"
             ELSE IF Sign(key, url, body.raw) = Val(signature) THEN "true" ELSE "false"

Body(raw, utf8, n, payment_status) ==
    [raw |-> raw, utf8 |-> utf8, n |-> n, payment_status |-> payment_status]

SquareBodies ==
    { Body("b-o1", TRUE, SqOrder("sq-o1", <<Entry("vA", 1, ""), Entry("vA", 1, "")>>), "COMPLETED"),
      Body("b-o3", TRUE, SqOrder("sq-o3", <<Entry("vA", 1, "")>>), "completed"),
      Body("b-o4", TRUE, SqOrder("sq-o4", <<Entry("vA", 1, "")>>), "APPROVED"),
      Body("b-i1", TRUE, SqInventory("sq-i1", <<Entry("vA", 1, "IN_STOCK")>>), ""),
      Body("b-noid", TRUE, SqInventory("", <<Entry("vA", 1, "IN_STOCK")>>), ""),
      Body("b-bytes", FALSE, NoNotification, "") }

\* The header is missing, empty, the signature of the body under the
\* configured key and url, under another key, of another body, or under an
\* empty key or url.
SignatureHeaders(body) ==
    { None, Some(<<>>),
      Some(Sign("k", "u", body.raw)), Some(Sign("bad", "u", body.raw)), Some(Sign("k", "u", "b-o1")),
      Some(Sign("", "u", body.raw)), Some(Sign("k", "", body.raw)) }

SquareRequests ==
    UNION {{[body |-> b, signature |-> sig] : sig \in SignatureHeaders(b)} : b \in SquareBodies}

SettingsSamples == {Settings("k", "u"), Settings("", "u"), Settings(" ", "u"), Settings("k", "")}

EbayBodies ==
    { Ebay("FixedPriceTransaction", "eb-f1", "A", "iA", Some(3), Some(1), Some(2)),
      Unparsable(Ebay("FixedPriceTransaction", "eb-f1", "A", "iA", Some(3), Some(1), Some(2))),
      Ebay("ItemRevised", "eb-u1", "X", "iX", Some(1), None, None) }

Respond(status) == endpoint' = [endpoint EXCEPT !.status = status]

\* background_tasks.add_task: the task runs after the response.
AddTask(n) ==
    /\ delivered < MaxDeliveries
    /\ \E tk \in Tasks :
          /\ task[tk].pc \in {"idle", "done"}
          /\ \A other \in Tasks : task[other].pc \in {"idle", "done"} => Rank(tk) <= Rank(other)
          /\ task' = [task EXCEPT ![tk] = [IdleTask EXCEPT !.pc = "scheduled", !.n = n]]
    /\ delivered' = delivered + 1

\* A slip: the body is parsed in the endpoint, and refused when that fails.
EbayPlatformWebhook_ParsesFirst(n) ==
    /\ IF n.malformed
       THEN Respond(400) /\ UNCHANGED <<task, delivered>>
       ELSE AddTask(n) /\ Respond(200)
    /\ UNCHANGED <<inventory, webhook_event, now, channels, ebay_token>>

\* POST /webhooks/ebay/platform/...
EbayPlatformWebhook(n) ==
    /\ AddTask(n)
    /\ Respond(200)
    /\ UNCHANGED <<inventory, webhook_event, now, channels, ebay_token>>

\* POST /webhooks/square
SquareWebhook(req) ==
    /\ LET verified == VerifySquareSignature(req.body, req.signature, endpoint.settings)
           n == req.body.n
       IN  IF verified = "raised"
           THEN Respond(500) /\ UNCHANGED <<task, delivered>>
           ELSE IF verified = "false"
           THEN Respond(401) /\ UNCHANGED <<task, delivered>>
           ELSE IF n.event_id = ""
           THEN Respond(400) /\ UNCHANGED <<task, delivered>>
           ELSE IF n.kind = "order" /\ Upper(req.body.payment_status) = "COMPLETED"
           THEN AddTask(n) /\ Respond(200)
           ELSE IF n.kind = "inventory" /\ n.entries # <<>>
           THEN AddTask(n) /\ Respond(200)
           ELSE Respond(200) /\ UNCHANGED <<task, delivered>>
    /\ UNCHANGED <<inventory, webhook_event, now, channels, ebay_token>>

EndpointInit ==
    /\ inventory = [A |-> [NewInventory EXCEPT !.on_hand = CHOOSE a \in InitOnHand : \A b \in InitOnHand : a >= b],
                    C |-> [NewInventory EXCEPT !.on_hand = 1]]
    /\ webhook_event = <<>>
    /\ task = [tk \in Tasks |-> IdleTask]
    /\ now = 0
    /\ delivered = 0
    /\ channels = NoChannels
    /\ endpoint \in {[NoEndpoint EXCEPT !.settings = st] : st \in SettingsSamples}
    /\ ebay_token = NoTokens

EndpointNext ==
    \/ \E req \in SquareRequests : SquareWebhook(req)
    \/ \E n \in EbayBodies : EbayPlatformWebhook(n)
    \/ \E tk \in Tasks : StartSquareOrder(tk)
    \/ \E tk \in Tasks, ok \in BOOLEAN : OrderRetrieved(tk, ok)
    \/ \E tk \in Tasks : StartSquareInventory(tk)
    \/ \E tk \in Tasks, ok \in BOOLEAN : EbayPushReturns(tk, ok)
    \/ \E tk \in Tasks, ok \in BOOLEAN : EbayResyncReturns(tk, ok)
    \/ \E tk \in Tasks : StartEbayPlatform(tk)
    \/ \E tk \in Tasks, ok \in BOOLEAN : SquareSetStockReturns(tk, ok)

EndpointSpec == EndpointInit /\ [][EndpointNext]_vars

(***************************************************************************)
(* The eBay access token.  _ebay_get_access_token of the webhook module    *)
(* and EbayClient._get_user_access_token are the same code over two caches:*)
(* read the clock, return the cached token if it expires more than two     *)
(* minutes from now, otherwise await a POST to the token endpoint and store*)
(* its answer.  Nothing is held across the await.  Time is in minutes.     *)
(***************************************************************************)
MaxCalls == 3

TOKEN_MARGIN == 2

\* expires_in of the token endpoint's answers
ExpiresIn == {2, 4}

\* A coroutine that is not inside the token function
NoCaller == [pc |-> "idle", cache |-> "webhook", started |-> 0, token |-> None]

\* The test of the cache: a token is there and expires later than now + 2 min.
Fresh(cached, at) ==
    /\ cached # None
    /\ Val(cached).expires_at > at + TOKEN_MARGIN

\* The number of token requests of a cache that are awaiting their answer
InFlight(c) ==
    Cardinality({tk \in Tasks : task[tk].pc = "token_post" /\ task[tk].cache = c})

\* The function up to its first await: the cached token is returned, or the
\* POST to the token endpoint is sent.
GetAccessToken(tk, c) ==
    /\ task[tk].pc \in {"idle", "returned", "raised"}
    /\ delivered < MaxCalls
    /\ delivered' = delivered + 1
    /\ task' = [task EXCEPT ![tk] =
           IF Fresh(ebay_token.cached[c], now)
           THEN [pc |-> "returned", cache |-> c, started |-> now,
                 token |-> Some(Val(ebay_token.cached[c]).access_token)]
           ELSE [pc |-> "token_post", cache |-> c, started |-> now, token |-> None]]
    /\ UNCHANGED <<inventory, webhook_event, now, channels, endpoint, ebay_token>>

\* The answer of the token endpoint: a status of 400 or more raises, any other
\* answer carries a token of its own, which is stored with its expiry counted
\* from the clock read before the request.
TokenPostReturned(tk, ok, expires_in) ==
    /\ task[tk].pc = "token_post"
    /\ IF ok
       THEN LET access_token == ebay_token.issued + 1
            IN  /\ ebay_token' =
                       [cached |-> [ebay_token.cached EXCEPT ![task[tk].cache] =
                                        Some([access_token |-> access_token,
                                              expires_at |-> task[tk].started + expires_in])],
                        issued |-> access_token]
                /\ task' = [task EXCEPT ![tk].pc = "returned",
                                        ![tk].token = Some(access_token)]
       ELSE /\ task' = [task EXCEPT ![tk].pc = "raised"]
            /\ UNCHANGED ebay_token
    /\ UNCHANGED <<inventory, webhook_event, now, delivered, channels, endpoint>>

TokenPostReturns ==
    \E tk \in Tasks, ok \in BOOLEAN, expires_in \in ExpiresIn :
        TokenPostReturned(tk, ok, expires_in)

\* A minute passes.
TokenTick ==
    /\ now < MaxTime
    /\ now' = now + 1
    /\ UNCHANGED <<inventory, webhook_event, task, delivered, channels, endpoint, ebay_token>>

TokenInit ==
    /\ inventory = [s \in Skus |-> None]
    /\ webhook_event = [id \in {} |-> None]
    /\ task = [tk \in Tasks |-> NoCaller]
    /\ now = 0
    /\ delivered = 0
    /\ channels = NoChannels
    /\ endpoint = NoEndpoint
    /\ ebay_token = NoTokens

TokenNext ==
    \/ \E tk \in Tasks, c \in Caches : GetAccessToken(tk, c)
    \/ TokenPostReturns
    \/ TokenTick

TokenSpec == TokenInit /\ [][TokenNext]_vars

(***************************************************************************)
(* Event ids.  The same handlers, fed with notifications whose ids are as  *)
(* the senders may make them: eBay notifications that carry no             *)
(* CorrelationID, and an eBay CorrelationID that is also the id of a Square*)
(* event.  Each delivery gets a task of its own, so the tasks' records keep*)
(* every notification delivered.                                           *)
(***************************************************************************)
IdNotifications ==
    { Ebay("FixedPriceTransaction", "", "A", "iA", Some(2), Some(1), Some(1)),
      Ebay("FixedPriceTransaction", "", "A", "iA", Some(0), Some(3), Some(2)),
      Ebay("ItemRevised", "", "A", "iA", Some(1), None, None),
      Ebay("ItemRevised", "sq-i1", "A", "iA", Some(2), None, None),
      SqInventory("sq-i1", <<Entry("vA", 1, "IN_STOCK")>>),
      SqOrder("sq-o1", <<Entry("vA", 1, "")>>) }

IdDeliver(tk, n) ==
    /\ delivered < MaxDeliveries
    /\ task[tk].pc = "idle"
    /\ \A other \in Tasks : task[other].pc = "idle" => Rank(tk) <= Rank(other)
    /\ task' = [task EXCEPT ![tk] = [IdleTask EXCEPT !.pc = "scheduled", !.n = n]]
    /\ delivered' = delivered + 1
    /\ UNCHANGED <<inventory, webhook_event, now, channels, endpoint, ebay_token>>

IdInit ==
    /\ inventory = [A |-> [NewInventory EXCEPT !.on_hand = CHOOSE a \in InitOnHand : \A b \in InitOnHand : a >= b]]
    /\ webhook_event = <<>>
    /\ task = [tk \in Tasks |-> IdleTask]
    /\ now = 0
    /\ delivered = 0
    /\ channels = NoChannels
    /\ endpoint = NoEndpoint
    /\ ebay_token = NoTokens

IdNext ==
    \/ \E tk \in Tasks, n \in IdNotifications : IdDeliver(tk, n)
    \/ \E d \in {ECHO_WINDOW, ECHO_WINDOW + 1} : Tick(d)
    \/ \E tk \in Tasks : StartSquareOrder(tk)
    \/ \E tk \in Tasks, ok \in BOOLEAN : OrderRetrieved(tk, ok)
    \/ \E tk \in Tasks : StartSquareInventory(tk)
    \/ \E tk \in Tasks, ok \in BOOLEAN : EbayPushReturns(tk, ok)
    \/ \E tk \in Tasks, ok \in BOOLEAN : EbayResyncReturns(tk, ok)
    \/ \E tk \in Tasks : StartEbayPlatform(tk)
    \/ \E tk \in Tasks, ok \in BOOLEAN : SquareSetStockReturns(tk, ok)
    \/ \E tk \in Tasks : Abort(tk)

IdSpec == IdInit /\ [][IdNext]_vars

(***************************************************************************)
(* The eBay endpoint alone, with the notifications eBay may send for a     *)
(* listing: revisions with and without QuantitySold and without Quantity,  *)
(* sales of several units, of none and without QuantityPurchased, and a    *)
(* revision of a listing that is not on Square.                            *)
(***************************************************************************)
EbayPathNotifications ==
    { Ebay("ItemRevised", "eb-r1", "A", "iA", Some(3), Some(2), None),
      Ebay("ItemRevised", "eb-r2", "A", "iA", Some(1), Some(2), None),
      Ebay("ItemRevised", "eb-r3", "A", "iA", None, None, None),
      Ebay("ItemRevised", "eb-r4", "A", "iA", Some(2), None, None),
      Ebay("FixedPriceTransaction", "eb-f1", "A", "iA", Some(3), Some(1), Some(2)),
      Ebay("FixedPriceTransaction", "eb-f2", "A", "iA", None, None, None),
      Ebay("FixedPriceTransaction", "eb-f3", "A", "iA", Some(3), Some(1), Some(0)),
      Ebay("ItemRevised", "eb-u2", "C", "iC", Some(2), None, None) }

EbayPathNext ==
    \/ \E tk \in Tasks, n \in EbayPathNotifications : Deliver(tk, n)
    \/ \E d \in {ECHO_WINDOW, ECHO_WINDOW + 1} : Tick(d)
    \/ \E tk \in Tasks : StartEbayPlatform(tk)
    \/ \E tk \in Tasks, ok \in BOOLEAN : SquareSetStockReturns(tk, ok)
    \/ \E tk \in Tasks : Abort(tk)

EbayPathSpec == Init /\ [][EbayPathNext]_vars

(***************************************************************************)
(* The eBay endpoint alone, with notifications that name a listing by its  *)
(* sku, by its item id, by both (of one listing or of two) or by neither,  *)
(* and a sale of the listing that is not on Square.                        *)
(***************************************************************************)
LookupNotifications ==
    { Ebay("ItemRevised", "eb-l1", "A", "iC", Some(2), None, None),
      Ebay("ItemRevised", "eb-l2", "", "iA", Some(2), None, None),
      Ebay("FixedPriceTransaction", "eb-l3", "", "iA", None, None, Some(1)),
      Ebay("ItemRevised", "eb-l4", "C", "iA", Some(2), None, None),
      Ebay("FixedPriceTransaction", "eb-l5", "X", "iA", None, None, Some(1)),
      Ebay("ItemRevised", "eb-l6", "", "iC", Some(2), None, None),
      Ebay("ItemRevised", "eb-l7", "", "", Some(2), None, None),
      Ebay("FixedPriceTransaction", "eb-l8", "C", "iC", None, None, Some(1)) }

LookupNext ==
    \/ \E tk \in Tasks, n \in LookupNotifications : Deliver(tk, n)
    \/ \E tk \in Tasks : StartEbayPlatform(tk)
    \/ \E tk \in Tasks, ok \in BOOLEAN : SquareSetStockReturns(tk, ok)
    \/ \E tk \in Tasks : Abort(tk)

LookupSpec == Init /\ [][LookupNext]_vars

(***************************************************************************)
(* The three handlers on a database whose product_map rows have no         *)
(* inventory row yet: sales and counts from Square for A and B, a sale and *)
(* revisions from eBay for A.                                              *)
(***************************************************************************)
LazyNotifications ==
    { SqOrder("sq-z1", <<Entry("vA", 2, "")>>),
      SqOrder("sq-z2", <<Entry("vB", 1, "")>>),
      SqInventory("sq-z3", <<Entry("vA", 3, "IN_STOCK")>>),
      SqInventory("sq-z4", <<Entry("vB", -1, "IN_STOCK")>>),
      SqInventory("sq-z5", <<Entry("vA", 0, "IN_STOCK")>>),
      Ebay("FixedPriceTransaction", "eb-z1", "A", "iA", None, None, Some(2)),
      Ebay("ItemRevised", "eb-z2", "A", "iA", Some(3), Some(1), None),
      Ebay("ItemRevised", "eb-z3", "A", "iA", Some(1), Some(2), None) }

LazyInit ==
    /\ inventory \in {[s \in {} |-> NewInventory], [s \in {"C"} |-> [NewInventory EXCEPT !.on_hand = 1]]}
    /\ webhook_event = <<>>
    /\ task = [tk \in Tasks |-> IdleTask]
    /\ now = 0
    /\ delivered = 0
    /\ channels = NoChannels
    /\ endpoint = NoEndpoint
    /\ ebay_token = NoTokens

LazyNext ==
    \/ \E tk \in Tasks, n \in LazyNotifications : Deliver(tk, n)
    \/ \E d \in {ECHO_WINDOW, ECHO_WINDOW + 1} : Tick(d)
    \/ \E tk \in Tasks : StartSquareOrder(tk)
    \/ \E tk \in Tasks, ok \in BOOLEAN : OrderRetrieved(tk, ok)
    \/ \E tk \in Tasks : StartSquareInventory(tk)
    \/ \E tk \in Tasks, ok \in BOOLEAN : EbayPushReturns(tk, ok)
    \/ \E tk \in Tasks, ok \in BOOLEAN : EbayResyncReturns(tk, ok)
    \/ \E tk \in Tasks : StartEbayPlatform(tk)
    \/ \E tk \in Tasks, ok \in BOOLEAN : SquareSetStockReturns(tk, ok)
    \/ \E tk \in Tasks : Abort(tk)

LazySpec == LazyInit /\ [][LazyNext]_vars

(***************************************************************************)
(* POST /listings/upsert and MultiChannelService.upsert_both for a sku     *)
(* that is listed on both channels.  The session sets on_hand to the       *)
(* quantity of the form, awaits the upsert on Square and then the one on   *)
(* eBay, and commits after both have returned; when either raises, the     *)
(* session is closed without commit.                                       *)
(***************************************************************************)
UpsertQuantities == {-1, 0, 2}

Listing(sku, quantity) ==
    [channel |-> "listing", kind |-> "upsert", event_id |-> "", entries |-> <<>>,
     sku |-> sku, item_id |-> "", quantity |-> Some(quantity), quantity_sold |-> None,
     quantity_purchased |-> None, malformed |-> FALSE]

\* inv.on_hand = int(quantity)
UpsertRow(row, quantity) == [row EXCEPT !.on_hand = quantity]

\* listings_upsert up to the await of the upsert on Square.
ListingsUpsert(tk, sku, quantity) ==
    /\ delivered < MaxDeliveries
    /\ task[tk].pc \in {"idle", "done"}
    /\ \A other \in Tasks : task[other].pc \in {"idle", "done"} => Rank(tk) <= Rank(other)
    /\ task' = [task EXCEPT ![tk] = [IdleTask EXCEPT !.pc = "upsert_square", !.n = Listing(sku, quantity),
                                                     !.calls = <<SquareCall(sku, quantity)>>]]
    /\ delivered' = delivered + 1
    /\ UNCHANGED <<inventory, webhook_event, now, channels, endpoint, ebay_token>>

\* upsert_item_with_images_and_inventory returns or raises.
UpsertSquareReturns(tk, ok) ==
    /\ task[tk].pc = "upsert_square"
    /\ IF ok
       THEN Suspend(tk, "upsert_ebay", webhook_event, inventory,
                    Append(Returned(task[tk].calls, TRUE),
                           EbayCall(<<Item(task[tk].n.sku, Val(task[tk].n.quantity))>>)),
                    NoResult)
       ELSE Done(tk, webhook_event, inventory, Returned(task[tk].calls, FALSE),
                 [NoResult EXCEPT !.action = "raised"])
    /\ UNCHANGED <<now, delivered, channels, endpoint, ebay_token>>

\* upsert_listing_with_images_and_inventory returns, and the session
\* commits; or it raises.
UpsertEbayReturns(tk, ok) ==
    /\ task[tk].pc = "upsert_ebay"
    /\ LET sku == task[tk].n.sku IN
       IF ok
       THEN Done(tk, webhook_event,
                 PutInv(inventory, sku, UpsertRow(GetOrCreateInv(inventory, sku), Val(task[tk].n.quantity))),
                 Returned(task[tk].calls, TRUE), [NoResult EXCEPT !.action = "upserted"])
       ELSE Done(tk, webhook_event, inventory, Returned(task[tk].calls, FALSE),
                 [NoResult EXCEPT !.action = "raised"])
    /\ UNCHANGED <<now, delivered, channels, endpoint, ebay_token>>

UpsertNotifications ==
    { SqOrder("sq-o1", <<Entry("vA", 1, ""), Entry("vA", 1, "")>>),
      SqInventory("sq-i1", <<Entry("vA", 1, "IN_STOCK")>>),
      Ebay("ItemRevised", "eb-r1", "A", "iA", Some(3), Some(2), None),
      Ebay("FixedPriceTransaction", "eb-f1", "A", "iA", Some(3), Some(1), Some(2)) }

UpsertNext ==
    \/ \E tk \in Tasks, q \in UpsertQuantities : ListingsUpsert(tk, "A", q)
    \/ \E tk \in Tasks, ok \in BOOLEAN : UpsertSquareReturns(tk, ok)
    \/ \E tk \in Tasks, ok \in BOOLEAN : UpsertEbayReturns(tk, ok)
    \/ \E tk \in Tasks, n \in UpsertNotifications : Deliver(tk, n)
    \/ \E tk \in Tasks : StartSquareOrder(tk)
    \/ \E tk \in Tasks, ok \in BOOLEAN : OrderRetrieved(tk, ok)
    \/ \E tk \in Tasks : StartSquareInventory(tk)
    \/ \E tk \in Tasks, ok \in BOOLEAN : EbayPushReturns(tk, ok)
    \/ \E tk \in Tasks : StartEbayPlatform(tk)
    \/ \E tk \in Tasks, ok \in BOOLEAN : SquareSetStockReturns(tk, ok)

UpsertSpec == Init /\ [][UpsertNext]_vars

(***************************************************************************)
(* The Square endpoint alone, with one payment and one count that Square   *)
(* sends again and again.                                                  *)
(***************************************************************************)
MaxRedeliveries == 3

ResyncNotifications ==
    { SqOrder("sq-o1", <<Entry("vA", 1, ""), Entry("vA", 1, "")>>),
      SqInventory("sq-i1", <<Entry("vA", 1, "IN_STOCK")>>) }

ResyncDeliver(tk, n) ==
    /\ delivered < MaxRedeliveries
    /\ task[tk].pc \in {"idle", "done"}
    /\ \A other \in Tasks : task[other].pc \in {"idle", "done"} => Rank(tk) <= Rank(other)
    /\ task' = [task EXCEPT ![tk] = [IdleTask EXCEPT !.pc = "scheduled", !.n = n]]
    /\ delivered' = delivered + 1
    /\ UNCHANGED <<inventory, webhook_event, now, channels, endpoint, ebay_token>>

ResyncNext ==
    \/ \E tk \in Tasks, n \in ResyncNotifications : ResyncDeliver(tk, n)
    \/ \E tk \in Tasks : StartSquareOrder(tk)
    \/ \E tk \in Tasks, ok \in BOOLEAN : OrderRetrieved(tk, ok)
    \/ \E tk \in Tasks : StartSquareInventory(tk)
    \/ \E tk \in Tasks, ok \in BOOLEAN : EbayPushReturns(tk, ok)
    \/ \E tk \in Tasks, ok \in BOOLEAN : EbayResyncReturns(tk, ok)
    \/ \E tk \in Tasks : Abort(tk)

ResyncSpec == Init /\ [][ResyncNext]_vars

(***************************************************************************)
(* The inventory handler of Square alone, with counts in the states Square *)
(* reports: IN_STOCK, none, and states of stock that is not for sale.      *)
(***************************************************************************)
StateNotifications ==
    { SqInventory("sq-s1", <<Entry("vA", 2, "SOLD")>>),
      SqInventory("sq-s2", <<Entry("vA", 2, "WASTE"), Entry("vA", 1, "IN_STOCK")>>),
      SqInventory("sq-s3", <<Entry("vA", 1, "IN_STOCK"), Entry("vA", 2, "SOLD")>>),
      SqInventory("sq-s4", <<Entry("vA", 2, "")>>),
      SqInventory("sq-s5", <<Entry("vB", 2, "RETURNED_BY_CUSTOMER"), Entry("vA", 0, "IN_TRANSIT")>>) }

StateNext ==
    \/ \E tk \in Tasks, n \in StateNotifications : Deliver(tk, n)
    \/ \E tk \in Tasks : StartSquareInventory(tk)
    \/ \E tk \in Tasks, ok \in BOOLEAN : EbayPushReturns(tk, ok)
    \/ \E tk \in Tasks, ok \in BOOLEAN : EbayResyncReturns(tk, ok)
    \/ \E tk \in Tasks : Abort(tk)

StateSpec == Init /\ [][StateNext]_vars

(***************************************************************************)
(* parse_ebay_platform_notification.                                       *)
(* A document is its root element; an element has the namespace and the    *)
(* name of its tag, its text and its children in document order.  A text   *)
(* is a sequence of tokens: a blank, a character of a number, or a word    *)
(* (no text at all is the empty sequence).                                 *)
(***************************************************************************)
El(ns, name, text, children) ==
    [tag |-> <<ns, name>>, text |-> text, children |-> children]

\* _local: "{namespace}Tag" -> "Tag"
Local(tag) == tag[2]

\* root.iter(): the element and its descendants in document order
RECURSIVE Iter(_), IterAll(_)
Iter(el) == <<el>> \o IterAll(el.children)

IterAll(els) == IF els = <<>> THEN <<>> ELSE Iter(Head(els)) \o IterAll(Tail(els))

\* str.strip on a text
RECURSIVE StripText(_)
StripText(t) ==
    IF t = <<>> THEN <<>>
    ELSE IF Head(t) = " " THEN StripText(Tail(t))
    ELSE IF t[Len(t)] = " " THEN StripText(SubSeq(t, 1, Len(t) - 1))
    ELSE t

\* el.text and el.text.strip()
HasText(el) == StripText(el.text) # <<>>

First(els) == IF els = <<>> THEN None ELSE Some(els[1])

\* _find_any_text: the stripped text of the first element anywhere with that
\* local name and a text.
FindAnyText(root, wanted_local) ==
    LET hits == SelectSeq(Iter(root), LAMBDA el : Local(el.tag) = wanted_local /\ HasText(el))
    IN  IF hits = <<>> THEN None ELSE Some(StripText(hits[1].text))

\* _first_node: the first element anywhere with that local name
FirstNode(root, wanted_local) ==
    First(SelectSeq(Iter(root), LAMBDA el : Local(el.tag) = wanted_local))

\* _child_text: the stripped text of the first direct child with that local
\* name and a text.
ChildText(parent, wanted_local) ==
    LET hits == SelectSeq(parent.children, LAMBDA c : Local(c.tag) = wanted_local /\ HasText(c))
    IN  IF hits = <<>> THEN None ELSE Some(StripText(hits[1].text))

DigitChars == {"0", "1", "2", "3", "4", "5", "6", "7", "8", "9"}

DigitValue(c) ==
    CASE c = "0" -> 0 [] c = "1" -> 1 [] c = "2" -> 2 [] c = "3" -> 3 [] c = "4" -> 4
      [] c = "5" -> 5 [] c = "6" -> 6 [] c = "7" -> 7 [] c = "8" -> 8 [] c = "9" -> 9

RECURSIVE DigitsValue(_)
DigitsValue(ds) ==
    IF ds = <<>> THEN 0 ELSE 10 * DigitsValue(SubSeq(ds, 1, Len(ds) - 1)) + DigitValue(ds[Len(ds)])

\* int(float(txt)) on a stripped text: a sign, digits, and a point with
\* digits are a number, which is cut off towards zero; on anything else the
\* conversion raises (None).
IntFloat(txt) ==
    LET signed == txt # <<>> /\ txt[1] \in {"-", "+"}
        body == IF signed THEN Tail(txt) ELSE txt
        points == {i \in DOMAIN body : body[i] = "."}
        point == IF points = {} THEN Len(body) + 1 ELSE CHOOSE i \in points : TRUE
        whole == SubSeq(body, 1, point - 1)
        fraction == SubSeq(body, point + 1, Len(body))
        digits == whole \o fraction
    IN  IF /\ Cardinality(points) <= 1
           /\ digits # <<>>
           /\ \A i \in DOMAIN digits : digits[i] \in DigitChars
        THEN Some((IF signed /\ txt[1] = "-" THEN -1 ELSE 1) * DigitsValue(whole))
        ELSE None

\* A slip: the first Quantity anywhere in the document is taken.
ItemQuantityText_Unscoped(root) == FindAnyText(root, "Quantity")

\* Lines 112-117: the Quantity that is a direct child of the first Item.
ItemQuantityText(root) ==
    LET item_el == FirstNode(root, "Item")
    IN  IF item_el = None THEN None ELSE ChildText(Val(item_el), "Quantity")

\* Lines 112-126: the QuantitySold that is a direct child of the first
\* SellingStatus among the direct children of the first Item.
ItemQuantitySoldText(root) ==
    LET item_el == FirstNode(root, "Item")
        selling_status_el ==
            IF item_el = None THEN None
            ELSE First(SelectSeq(Val(item_el).children, LAMBDA c : Local(c.tag) = "SellingStatus"))
    IN  IF selling_status_el = None THEN None ELSE ChildText(Val(selling_status_el), "QuantitySold")

\* Lines 128-141: no text gives None, a text that is no number gives 0.
QuantityOf(txt) ==
    IF txt = None THEN None
    ELSE IF IntFloat(Val(txt)) = None THEN Some(0)
    ELSE IntFloat(Val(txt))

RECURSIVE SumSeq(_)
SumSeq(values) == IF values = <<>> THEN 0 ELSE Head(values) + SumSeq(Tail(values))

\* A slip: absent is reported as 0.
PurchasedOf_ZeroWhenAbsent(values) ==
    IF values = <<>> THEN Some(0) ELSE Some(SumSeq(values))

\* Line 154: purchased_total if found_purchase else None
PurchasedOf(values) ==
    IF values = <<>> THEN None ELSE Some(SumSeq(values))

\* Lines 144-152: the values of the QuantityPurchased elements anywhere that
\* have a text which is a number.
PurchasedValues(root) ==
    LET found == SelectSeq(Iter(root),
                           LAMBDA el : /\ Local(el.tag) = "QuantityPurchased"
                                       /\ HasText(el)
                                       /\ IntFloat(StripText(el.text)) # None)
    IN  [i \in DOMAIN found |-> Val(IntFloat(StripText(found[i].text)))]

\* A text of one word as a string, "" for None
Word(txt) == IF txt = None THEN "" ELSE Val(txt)[1]

\* parse_ebay_platform_notification
ParseEbayPlatformNotification(root) ==
    [event_name |-> IF FindAnyText(root, "NotificationEventName") = None THEN "Unknown"
                    ELSE Word(FindAnyText(root, "NotificationEventName")),
     correlation_id |-> Word(FindAnyText(root, "CorrelationID")),
     item_id |-> Word(FindAnyText(root, "ItemID")),
     sku |-> Word(FindAnyText(root, "SKU")),
     quantity |-> QuantityOf(ItemQuantityText(root)),
     quantity_sold |-> QuantityOf(ItemQuantitySoldText(root)),
     quantity_purchased |-> PurchasedOf(PurchasedValues(root))]

(***************************************************************************)
(* The documents the parser is given: an envelope with the event name, an  *)
(* optional element with a Quantity and a QuantitySold of its own before   *)
(* and after the Item, an optional Item with an optional variation holding *)
(* such elements, an optional Quantity and an optional SellingStatus, and  *)
(* transactions with a QuantityPurchased each.                             *)
(***************************************************************************)
Leaf(ns, name, text) == El(ns, name, text, <<>>)

\* An element that is not the Item and has quantities of its own
Elsewhere(ns, name) ==
    El(ns, name, <<>>,
       << Leaf(ns, "Quantity", <<"4", "2">>),
          El(ns, "SellingStatus", <<>>, <<Leaf(ns, "QuantitySold", <<"9">>)>>),
          Leaf(ns, "QuantitySold", <<"7">>) >>)

QuantityTexts ==
    { <<"5">>, <<" ", "5", " ">>, <<"2", ".", "7">>, <<"0">>, <<"abc">>, <<" ">> }

SellingStatuses ==
    { <<>>,
      <<El("urn", "SellingStatus", <<>>, <<Leaf("urn", "CurrentPrice", <<"1", "0">>)>>)>>,
      <<El("urn", "SellingStatus", <<>>, <<Leaf("urn", "QuantitySold", <<"2">>)>>)>> }

Items ==
    { El("urn", "Item", <<>>,
         << Leaf("urn", "ItemID", <<"iA">>), Leaf("urn", "SKU", <<" ", "A">>) >>
         \o variations \o quantity \o selling_status) :
        variations \in { <<>>, <<El("urn", "Variations", <<>>, <<Elsewhere("urn", "Variation")>>)>> },
        quantity \in { <<>> } \cup { <<Leaf("urn", "Quantity", t)>> : t \in QuantityTexts },
        selling_status \in SellingStatuses }

PurchaseTexts ==
    { <<>>,
      << <<"0">> >>,
      << <<"2">>, <<"1">> >>,
      << <<"abc">> >>,
      << <<"abc">>, <<"3">> >>,
      << <<" ">> >>,
      << <<"1", ".", "5">>, <<" ", "2">> >>,
      << <<"0">>, <<"0">> >> }

Transactions(texts) ==
    IF texts = <<>> THEN <<>>
    ELSE <<El("urn", "TransactionArray", <<>>,
              [i \in DOMAIN texts |->
                  El("urn", "Transaction", <<>>, <<Leaf("urn", "QuantityPurchased", texts[i])>>)])>>

Documents ==
    { El("soapenv", "Envelope", <<>>,
         << Leaf("urn", "NotificationEventName",
                 << IF texts = <<>> THEN "ItemRevised" ELSE "FixedPriceTransaction" >>),
            Leaf("urn", "CorrelationID", <<"eb-1">>) >>
         \o before \o item \o after \o Transactions(texts)) :
        before \in { <<>>, <<Elsewhere("ns2", "Listing")>> },
        item \in { <<>> } \cup { <<i>> : i \in Items },
        after \in { <<>>, <<Elsewhere("", "Order")>> },
        texts \in PurchaseTexts }

\* A task that has not been given a document
NoParse == [pc |-> "idle", doc |-> None, ev |-> None]

\* The task calls parse_ebay_platform_notification on its document.
Parse(tk) ==
    /\ task[tk].pc = "scheduled"
    /\ task' = [task EXCEPT ![tk].pc = "parsed",
                            ![tk].ev = Some(ParseEbayPlatformNotification(Val(task[tk].doc)))]
    /\ UNCHANGED <<inventory, webhook_event, now, delivered, channels, endpoint, ebay_token>>

ParseInit ==
    /\ inventory = [s \in Skus |-> None]
    /\ webhook_event = <<>>
    /\ task \in {[tk \in Tasks |-> IF tk = TaskOrder[1]
                                   THEN [pc |-> "scheduled", doc |-> Some(d), ev |-> None]
                                   ELSE NoParse] : d \in Documents}
    /\ now = 0
    /\ delivered = 1
    /\ channels = NoChannels
    /\ endpoint = NoEndpoint
    /\ ebay_token = NoTokens

ParseNext == \E tk \in Tasks : Parse(tk)

ParseSpec == ParseInit /\ [][ParseNext]_vars

(***************************************************************************)
(* extract_inventory_change.                                               *)
(* data.object of a Square payload has the keys inventory_counts,          *)
(* inventoryCounts (a list), inventory_count and inventoryCount (one       *)
(* count), each absent (None) or present.  A count is a dict with the keys *)
(* catalog_object_id, catalogObjectId ("" when absent), state and          *)
(* quantity, or something that is no dict.  A quantity is absent, a string *)
(* (a text as in the eBay documents), an integer, or a value of another    *)
(* type.                                                                   *)
(***************************************************************************)
QAbsent == [kind |-> "absent"]

QStr(text) == [kind |-> "str", text |-> text]

QInt(value) == [kind |-> "int", value |-> value]

QOther == [kind |-> "other"]

Count(catalog_object_id, catalogObjectId, state, quantity) ==
    [kind |-> "dict", catalog_object_id |-> catalog_object_id, catalogObjectId |-> catalogObjectId,
     state |-> state, quantity |-> quantity]

NoDict == [kind |-> "other"]

\* int(float(c.get("quantity") or "0")), 0 when the conversion raises
ExtractQuantity(q) ==
    IF q.kind = "str"
    THEN IF q.text = <<>> \/ IntFloat(StripText(q.text)) = None
         THEN 0
         ELSE Val(IntFloat(StripText(q.text)))
    ELSE IF q.kind = "int" THEN q.value
    ELSE 0

\* A slip: a count whose quantity is no number is left out.
ExtractCount_DropsUnparsed(c) ==
    LET cat_id == IF c.catalog_object_id # "" THEN c.catalog_object_id ELSE c.catalogObjectId
    IN  IF c.kind # "dict" \/ cat_id = "" THEN <<>>
        ELSE IF c.quantity.kind \in {"absent", "other"}
                \/ (c.quantity.kind = "str" /\ IntFloat(StripText(c.quantity.text)) = None)
        THEN <<>>
        ELSE <<Entry(cat_id, ExtractQuantity(c.quantity), c.state)>>

\* Lines 82-91 and 96-103: the entry of one count, none when it is no dict
\* or has no catalog object id.
ExtractCount(c) ==
    IF c.kind # "dict" THEN <<>>
    ELSE LET cat_id == IF c.catalog_object_id # "" THEN c.catalog_object_id ELSE c.catalogObjectId
         IN  IF cat_id = "" THEN <<>>
             ELSE <<Entry(cat_id, ExtractQuantity(c.quantity), c.state)>>

RECURSIVE ExtractCounts(_)
ExtractCounts(counts) ==
    IF counts = <<>> THEN <<>>
    ELSE ExtractCount(Head(counts)) \o ExtractCounts(Tail(counts))

\* a or b on two optional lists
OrElse(a, b) == IF a # None /\ Val(a) # <<>> THEN a ELSE b

\* extract_inventory_change
ExtractInventoryChange(obj) ==
    LET counts == OrElse(obj.inventory_counts, obj.inventoryCounts)
        count == IF obj.inventory_count # None THEN obj.inventory_count ELSE obj.inventoryCount
    IN  IF counts # None THEN ExtractCounts(Val(counts))
        ELSE IF count # None THEN ExtractCount(Val(count))
        ELSE <<>>

\* The counts Square may send for the variations vA and vB
UnparsedQuantities == {QAbsent, QStr(<<"abc">>), QStr(<<>>), QOther}

UnparsedCounts ==
    {Count("vA", "", "IN_STOCK", q) : q \in UnparsedQuantities}
        \cup {Count("", "vA", "IN_STOCK", QAbsent)}

OtherCounts ==
    { Count("vB", "", "IN_STOCK", QInt(1)),
      Count("", "vB", "", QStr(<<"2", ".", "0">>)),
      Count("", "", "IN_STOCK", QStr(<<"3">>)),
      NoDict }

CountLists ==
    {<<c>> : c \in UnparsedCounts \cup {Count("vA", "", "IN_STOCK", QStr(<<" ", "2">>))}}
        \cup {<<c, o>> : c \in UnparsedCounts, o \in OtherCounts}
        \cup {<<o, c>> : c \in UnparsedCounts, o \in OtherCounts}

NoObject ==
    [inventory_counts |-> None, inventoryCounts |-> None, inventory_count |-> None, inventoryCount |-> None]

InventoryObjects ==
    {[NoObject EXCEPT !.inventory_counts = Some(l)] : l \in CountLists}
        \cup {[NoObject EXCEPT !.inventoryCounts = Some(l)] : l \in CountLists}
        \cup {[NoObject EXCEPT !.inventory_count = Some(c)] : c \in UnparsedCounts}
        \cup {[NoObject EXCEPT !.inventoryCount = Some(c)] : c \in UnparsedCounts}
        \cup {[NoObject EXCEPT !.inventory_counts = Some(<<>>), !.inventoryCount = Some(c)] : c \in UnparsedCounts}

PayloadEventIds == {"sq-p1"}

\* POST /webhooks/square with an inventory payload, lines 388-391: the task
\* is scheduled when the payload has changes.  One payload is received.
ReceiveInventory(event_id, obj) ==
    LET changes == ExtractInventoryChange(obj) IN
    /\ changes # <<>>
    /\ delivered = 0
    /\ \E tk \in Tasks :
          /\ task[tk].pc \in {"idle", "done"}
          /\ \A other \in Tasks : task[other].pc \in {"idle", "done"} => Rank(tk) <= Rank(other)
          /\ task' = [task EXCEPT ![tk] =
                 [pc |-> "scheduled", n |-> SqInventory(event_id, changes), calls |-> <<>>,
                  result |-> NoResult, object |-> obj]]
    /\ delivered' = delivered + 1
    /\ UNCHANGED <<inventory, webhook_event, now, channels, endpoint, ebay_token>>

PayloadNext ==
    \/ \E event_id \in PayloadEventIds, obj \in InventoryObjects : ReceiveInventory(event_id, obj)
    \/ \E tk \in Tasks : StartSquareInventory(tk)
    \/ \E tk \in Tasks, ok \in BOOLEAN : EbayPushReturns(tk, ok)
    \/ \E tk \in Tasks : Abort(tk)

PayloadSpec == Init /\ [][PayloadNext]_vars

(***************************************************************************)
(* Vocabulary of the properties.                                           *)
(***************************************************************************)
Applied(ev, id) == id \in DOMAIN ev /\ ev[id].applied_inventory

\* The task takes a step.
Steps(tk) == task'[tk] # task[tk]

\* The task starts processing a notification whose event is already applied.
Redelivered(tk) == task[tk].pc = "scheduled" /\ Applied(webhook_event, EventKey(task[tk].n))

\* The task starts processing a notification whose event is not yet applied.
FirstTime(tk) == task[tk].pc = "scheduled" /\ ~Applied(webhook_event, EventKey(task[tk].n))

OnHand(inv, sku) == IF sku \in DOMAIN inv THEN inv[sku].on_hand ELSE 0

\* A sale of one sku: a completed payment for an order of one line, or an
\* eBay FixedPriceTransaction that states the purchased quantity.
\* A sale of one mapped sku: a completed payment for an order whose lines
\* name one variation, or an eBay FixedPriceTransaction that states the
\* purchased quantity.
IsSale(n) ==
    \/ /\ n.kind = "order"
       /\ Len(SoldByVariation(n.entries)) = 1
       /\ PmBySquareVariation(SoldByVariation(n.entries)[1].id) # {}
    \/ /\ n.kind = "FixedPriceTransaction"
       /\ n.quantity_purchased # None
       /\ LookupProductMap(n.sku, n.item_id) # {}

SaleQty(n) ==
    IF n.kind = "order" THEN SoldByVariation(n.entries)[1].qty ELSE Val(n.quantity_purchased)

SaleSku(n) ==
    IF n.kind = "order"
    THEN CHOOSE s \in PmBySquareVariation(SoldByVariation(n.entries)[1].id) : TRUE
    ELSE CHOOSE s \in LookupProductMap(n.sku, n.item_id) : TRUE

(***************************************************************************)
(* C1.  Sequential redelivery is a no-op: in each of the three handlers, a *)
(* task that finds its event applied changes no inventory row in any of    *)
(* its steps, and the event stays applied.                                 *)
(***************************************************************************)
C1_RedeliveryNoOp ==
    [][\A tk \in Tasks :
         (Steps(tk) /\ (Redelivered(tk) \/ task[tk].pc = "ebay_resync"))
            => /\ inventory' = inventory
               /\ Applied(webhook_event', EventKey(task[tk].n))]_vars

\* A redelivered Square order has been handled.
C1_Witness ==
    \E tk \in Tasks :
        /\ task[tk].pc = "done"
        /\ task[tk].n.kind = "order"
        /\ task[tk].result.action = "already_applied"

\* A redelivered Square inventory event and a redelivered eBay event likewise.
C1_WitnessInventory ==
    \E tk \in Tasks :
        /\ task[tk].pc = "done"
        /\ task[tk].n.kind = "inventory"
        /\ task[tk].result.action = "already_applied"

C1_WitnessEbay ==
    \E tk \in Tasks : task[tk].pc = "done" /\ task[tk].result.action = "duplicate_ignored"

(***************************************************************************)
(* C2.  Concurrent duplicate delivery applies a SALE at most once: when    *)
(* two tasks have processed the same sale of q units of a sku concurrently *)
(* and nothing else was delivered, on_hand is max(n - q, 0) for the prior  *)
(* on_hand n (the larger of the two values the tasks read).                *)
(***************************************************************************)
C2_ConcurrentSaleOnce ==
    \A t1, t2 \in Tasks :
        (/\ t1 # t2
         /\ task[t1].n = task[t2].n
         /\ IsSale(task[t1].n)
         /\ task[t1].pc = "done" /\ task[t1].result.action = "applied"
         /\ task[t2].pc = "done" /\ task[t2].result.action = "applied")
        => LET c1 == task[t1].result.updated[1]
               c2 == task[t2].result.updated[1]
           IN  inventory[c1.sku].on_hand = Max(Max(c1.before, c2.before) - SaleQty(task[t1].n), 0)

(***************************************************************************)
(* C3.  Non-negativity: every inventory row has on_hand >= 0 whatever the  *)
(* events ask for; a decrement beyond the stock leaves 0, and the event is *)
(* applied all the same.                                                   *)
(***************************************************************************)
C3_NonNegative ==
    /\ \A s \in DOMAIN inventory : inventory[s].on_hand >= 0
    /\ \A tk \in Tasks :
         task[tk].result.action = "applied"
            => /\ Applied(webhook_event, EventKey(task[tk].n)) \/ task[tk].pc = "square_set_stock"
               /\ \A i \in DOMAIN task[tk].result.updated :
                     LET c == task[tk].result.updated[i] IN
                     /\ c.after >= 0
                     /\ (IsSale(task[tk].n) /\ c.before <= SaleQty(task[tk].n)) => c.after = 0

\* A sale of 2 units met a stock of 1, and a negative count was restated.
C3_Witness ==
    /\ \E tk \in Tasks :
         /\ task[tk].pc = "done"
         /\ IsSale(task[tk].n)
         /\ task[tk].result.action = "applied"
         /\ task[tk].result.updated[1].before = 1
         /\ task[tk].result.updated[1].after = 0
    /\ \E tk \in Tasks :
         /\ task[tk].pc = "done"
         /\ task[tk].n.event_id = "sq-i2"
         /\ task[tk].result.action = "applied"

(***************************************************************************)
(* Events that restate one absolute quantity for one sku: a Square         *)
(* inventory notification with one IN_STOCK count, or an eBay ItemRevised  *)
(* that states the quantity.  RestatedSkus is the sku the handler resolves *)
(* for it (none when its mapping does not resolve), Candidate the quantity *)
(* the event asks for.                                                     *)
(***************************************************************************)
IsRestatement(n) ==
    \/ /\ n.kind = "inventory"
       /\ Len(n.entries) = 1
       /\ n.entries[1].state \in {"", "IN_STOCK"}
    \/ /\ n.kind = "ItemRevised"
       /\ n.quantity # None

RestatedSkus(n) ==
    IF n.kind = "inventory"
    THEN PmBySquareVariation(n.entries[1].id)
    ELSE {s \in LookupProductMap(n.sku, n.item_id) : ProductMap[s].square_variation_id # ""}

Candidate(n) ==
    IF n.kind = "inventory"
    THEN Max(n.entries[1].qty, 0)
    ELSE Max(Val(n.quantity) - (IF n.quantity_sold = None THEN 0 ELSE Val(n.quantity_sold)), 0)

OtherChannel(n) == IF n.channel = "square" THEN "ebay" ELSE "square"

\* The mapping of the sku names it on both channels.
OnBothChannels(sku) ==
    ProductMap[sku].square_variation_id # "" /\ ProductMap[sku].ebay_offer_id # ""

\* The echo rule: the other channel produced the current value of the row
\* within the echo window, and the event restates that value.
IsEcho(n, sku) ==
    /\ sku \in DOMAIN inventory
    /\ inventory[sku].last_source = OtherChannel(n)
    /\ inventory[sku].last_source_at # None
    /\ now - Val(inventory[sku].last_source_at) <= ECHO_WINDOW
    /\ Candidate(n) = inventory[sku].on_hand

\* The task has issued a call that sets the quantity of the sku to qty.
Pushes(tk, to, sku, qty) ==
    \E i \in DOMAIN task'[tk].calls :
        /\ task'[tk].calls[i].to = to
        /\ \E j \in DOMAIN task'[tk].calls[i].items :
              /\ task'[tk].calls[i].items[j].sku = sku
              /\ task'[tk].calls[i].items[j].qty = qty

(***************************************************************************)
(* C4.  Echo suppression on both channels: a first-time event of channel X *)
(* that restates the on_hand which the other channel produced within the   *)
(* echo window changes no inventory row, issues no set-quantity call, and  *)
(* is marked applied.                                                      *)
(***************************************************************************)
C4_EchoSuppressedBothChannels ==
    [][\A tk \in Tasks : \A sku \in RestatedSkus(task[tk].n) :
         (Steps(tk) /\ FirstTime(tk) /\ IsRestatement(task[tk].n) /\ IsEcho(task[tk].n, sku))
            => /\ inventory' = inventory
               /\ task'[tk].calls = <<>>
               /\ Applied(webhook_event', EventKey(task[tk].n))]_vars

\* The half of C4 that the code keeps: the echo guard of the Square handler.
C4_SquareEchoSuppressed ==
    [][\A tk \in Tasks : \A sku \in RestatedSkus(task[tk].n) :
         (/\ Steps(tk) /\ FirstTime(tk) /\ IsRestatement(task[tk].n)
          /\ task[tk].n.channel = "square" /\ IsEcho(task[tk].n, sku))
            => /\ inventory' = inventory
               /\ task'[tk].calls = <<>>
               /\ Applied(webhook_event', EventKey(task[tk].n))]_vars

(***************************************************************************)
(* C5.  A differing value is never suppressed: a first-time event that     *)
(* restates, for a sku mapped on both channels, a quantity other than the  *)
(* current on_hand is applied whatever last_source and last_source_at are: *)
(* on_hand becomes the candidate, last_source the event's channel, and a   *)
(* call setting the other channel to the candidate is issued.              *)
(***************************************************************************)
C5_DifferingValueApplied ==
    [][\A tk \in Tasks : \A sku \in RestatedSkus(task[tk].n) :
         (/\ Steps(tk) /\ FirstTime(tk) /\ IsRestatement(task[tk].n)
          /\ OnBothChannels(sku)
          /\ Candidate(task[tk].n) # OnHand(inventory, sku))
            => /\ inventory'[sku].on_hand = Candidate(task[tk].n)
               /\ inventory'[sku].last_source = task[tk].n.channel
               /\ inventory'[sku].last_source_at = Some(now)
               /\ Pushes(tk, OtherChannel(task[tk].n), sku, Candidate(task[tk].n))]_vars

\* With no time passed since an eBay revision of the sku, a Square count has
\* changed the value that revision left; and the same with the channels
\* exchanged.
C5_Witness ==
    \E t1, t2 \in Tasks :
        /\ now = 0
        /\ IsRestatement(task[t1].n) /\ IsRestatement(task[t2].n)
        /\ task[t1].n.channel # task[t2].n.channel
        /\ task[t1].pc = "done" /\ task[t1].result.updated # <<>>
        /\ task[t2].result.updated # <<>>
        /\ task[t2].result.updated[1].sku = task[t1].result.updated[1].sku
        /\ task[t2].result.updated[1].before = task[t1].result.updated[1].after
        /\ task[t2].result.updated[1].after # task[t2].result.updated[1].before
        /\ task[t2].calls # <<>>

(***************************************************************************)
(* C6.  A Square inventory event that restates the current on_hand of a    *)
(* row changes no inventory row and adds nothing to the eBay update,       *)
(* whatever last_source and last_source_at are; with another quantity it   *)
(* is applied, and pushed to the eBay offer of the sku.                    *)
(***************************************************************************)
C6_SquareRestatementNoOp ==
    [][\A tk \in Tasks : \A sku \in RestatedSkus(task[tk].n) :
         (/\ Steps(tk) /\ FirstTime(tk) /\ IsRestatement(task[tk].n)
          /\ task[tk].n.kind = "inventory"
          /\ sku \in DOMAIN inventory)
            => IF Candidate(task[tk].n) = inventory[sku].on_hand
               THEN /\ inventory' = inventory
                    /\ task'[tk].calls = <<>>
               ELSE /\ inventory'[sku] =
                          [on_hand |-> Candidate(task[tk].n), last_source |-> "square",
                           last_source_at |-> Some(now)]
                    /\ ProductMap[sku].ebay_offer_id # ""
                          => Pushes(tk, "ebay", sku, Candidate(task[tk].n))]_vars

\* A Square count restated the on_hand of a row that no eBay event had
\* produced, and nothing was changed or pushed.
C6_Witness ==
    \E tk \in Tasks : \E sku \in RestatedSkus(task[tk].n) :
        /\ task[tk].pc = "done"
        /\ task[tk].n.kind = "inventory"
        /\ IsRestatement(task[tk].n)
        /\ task[tk].result.action = "applied"
        /\ task[tk].result.updated = <<>>
        /\ task[tk].calls = <<>>
        /\ sku \in DOMAIN inventory
        /\ inventory[sku].last_source # "ebay"
        /\ inventory[sku].on_hand = Candidate(task[tk].n)

(***************************************************************************)
(* C7.  Propagation of a Square sale: processing a not yet applied Square  *)
(* order that sells q units of a sku with an eBay offer id, at on_hand n,  *)
(* leaves on_hand = max(n - q, 0), last_source = square and applied =      *)
(* true, with one eBay quantity update issued, for that sku and that       *)
(* quantity; the return of the update adds no call and changes no row.     *)
(***************************************************************************)
C7_SquareSalePropagated ==
    [][\A tk \in Tasks :
         (Steps(tk) /\ task[tk].n.kind = "order" /\ IsSale(task[tk].n)
            /\ ProductMap[SaleSku(task[tk].n)].ebay_offer_id # "")
         => LET sku == SaleSku(task[tk].n)
                after == Max(OnHand(inventory, sku) - SaleQty(task[tk].n), 0)
            IN  /\ (task[tk].pc = "retrieve_order" /\ task'[tk].result.action = "applied")
                     => /\ inventory'[sku].on_hand = after
                        /\ inventory'[sku].last_source = "square"
                        /\ Applied(webhook_event', EventKey(task[tk].n))
                        /\ Len(task'[tk].calls) = 1
                        /\ task'[tk].calls[1].to = "ebay"
                        /\ task'[tk].calls[1].items = <<[sku |-> sku, offer_id |-> ProductMap[sku].ebay_offer_id, qty |-> after]>>
                /\ task[tk].pc = "ebay_push"
                     => /\ inventory' = inventory
                        /\ Applied(webhook_event', EventKey(task[tk].n))
                        /\ Len(task'[tk].calls) = 1
                        /\ task'[tk].calls[1].items = task[tk].calls[1].items]_vars

\* A Square order took 2 units from a stock of 3 and the update of eBay to 1
\* has returned.
C7_Witness ==
    \E tk \in Tasks :
        /\ task[tk].pc = "done"
        /\ task[tk].n.kind = "order"
        /\ IsSale(task[tk].n)
        /\ task[tk].result.updated = <<[sku |-> "A", before |-> 3, after |-> 1]>>
        /\ task[tk].calls[1].outcome = "ok"
        /\ inventory["A"].on_hand = 1

(***************************************************************************)
(* C8.  An unmapped product is terminal and inert: processing a not yet    *)
(* applied event whose ids resolve to no product_map row creates and       *)
(* changes no inventory row and issues no call, and the handler returns    *)
(* with the event applied.                                                 *)
(***************************************************************************)
Unmapped(n) ==
    IF n.channel = "square"
    THEN \A i \in DOMAIN n.entries : PmBySquareVariation(n.entries[i].id) = {}
    ELSE LookupProductMap(n.sku, n.item_id) = {}

C8_UnmappedInert ==
    [][\A tk \in Tasks :
         (/\ Steps(tk) /\ Unmapped(task[tk].n)
          /\ FirstTime(tk) \/ task[tk].pc = "retrieve_order")
            => /\ inventory' = inventory
               /\ task'[tk].calls = <<>>
               /\ (task'[tk].pc = "done" /\ task'[tk].result.action # "raised")
                     => Applied(webhook_event', EventKey(task[tk].n))
               /\ task'[tk].pc \in {"done", "retrieve_order"}]_vars

\* An unmapped eBay item and an unmapped Square variation have been handled.
C8_Witness ==
    \E t1, t2 \in Tasks :
        /\ task[t1].pc = "done" /\ task[t1].n.channel = "ebay" /\ Unmapped(task[t1].n)
        /\ task[t1].result.action = "ignored_no_mapping"
        /\ task[t2].pc = "done" /\ task[t2].n.channel = "square" /\ Unmapped(task[t2].n)
        /\ task[t2].result.action = "applied"
        /\ "X" \notin DOMAIN inventory

(***************************************************************************)
(* C9.  Propagation failure durability for Square events: when the eBay    *)
(* update of a Square event fails, the inventory rows keep their new       *)
(* values, the event is applied and not synced; a redelivery that finds    *)
(* the event applied and not synced issues one bulk update with the        *)
(* current on_hand of every sku that has an eBay offer id, changes no      *)
(* inventory row, and sets ebay_synced when the update succeeds.           *)
(***************************************************************************)
OfferSkus == {s \in DOMAIN ProductMap : ProductMap[s].ebay_offer_id # ""}

NotSynced(tk) == ~webhook_event[EventKey(task[tk].n)].ebay_synced

C9_SquarePropagationFailure ==
    [][\A tk \in Tasks :
         (Steps(tk) /\ task[tk].n.channel = "square")
         => LET id == EventKey(task[tk].n) IN
            /\ (task[tk].pc = "ebay_push" /\ task'[tk].calls[1].outcome = "failed")
                 => /\ inventory' = inventory
                    /\ webhook_event'[id] = [applied_inventory |-> TRUE, ebay_synced |-> FALSE]
            /\ (Redelivered(tk) /\ NotSynced(tk))
                 => /\ inventory' = inventory
                    /\ Len(task'[tk].calls) = 1
                    /\ task'[tk].calls[1].to = "ebay"
                    /\ Len(task'[tk].calls[1].items) = Cardinality(OfferSkus)
                    /\ \A s \in OfferSkus : Pushes(tk, "ebay", s, OnHand(inventory, s))
            /\ task[tk].pc = "ebay_resync"
                 => /\ inventory' = inventory
                    /\ Len(task'[tk].calls) = 1
                    /\ task'[tk].calls[1].outcome = "ok" => webhook_event'[id].ebay_synced]_vars

\* The eBay update of a Square event failed, and the bulk update of its
\* redelivery succeeded.
C9_Witness ==
    \E t1, t2 \in Tasks :
        /\ task[t1].n = task[t2].n
        /\ task[t1].n.channel = "square"
        /\ task[t1].pc = "done" /\ task[t1].result.action = "applied"
        /\ task[t1].calls # <<>> /\ task[t1].calls[1].outcome = "failed"
        /\ task[t2].pc = "done" /\ task[t2].result.action = "already_applied"
        /\ task[t2].calls # <<>> /\ task[t2].calls[1].outcome = "ok"
        /\ webhook_event[EventKey(task[t1].n)].ebay_synced
        /\ inventory[task[t1].result.updated[1].sku].on_hand = task[t1].result.updated[1].after

(***************************************************************************)
(* C10.  Resync on redelivery for events of either channel: when the push  *)
(* of an event, Square or eBay, has failed (the row is applied and not     *)
(* synced) and the event is delivered again, that delivery issues a push   *)
(* that carries the current on_hand of the event's sku.                    *)
(***************************************************************************)
C10_ResyncEitherChannel ==
    \A t1, t2 \in Tasks :
        (/\ task[t1].n = task[t2].n
         /\ task[t1].pc = "done" /\ task[t1].result.action = "applied"
         /\ task[t1].calls # <<>> /\ task[t1].calls[1].outcome = "failed"
         /\ task[t2].pc = "done"
         /\ task[t2].result.action \in {"already_applied", "duplicate_ignored"})
        => /\ task[t2].calls # <<>>
           /\ \E j \in DOMAIN task[t2].calls[1].items :
                 LET sku == task[t1].result.updated[1].sku IN
                 /\ task[t2].calls[1].items[j].sku = sku
                 /\ task[t2].calls[1].items[j].qty = inventory[sku].on_hand

\* The half of C10 that the code keeps is the redelivery clause of C9; an
\* eBay event whose Square update failed is ignored when it comes again.
C10_EbayRedeliveryIgnored ==
    \E t1, t2 \in Tasks :
        /\ task[t1].n = task[t2].n
        /\ task[t1].pc = "done" /\ task[t1].result.square = "failed"
        /\ task[t2].pc = "done" /\ task[t2].result.action = "duplicate_ignored"
        /\ task[t2].calls = <<>>

(***************************************************************************)
(* C11.  The change of on_hand and applied = true are committed together:  *)
(* in every state, whatever was aborted, an event whose processing has     *)
(* changed the on_hand of a row is applied.                                *)
(***************************************************************************)
HasChanged(tk) ==
    \E i \in DOMAIN task[tk].result.updated :
        task[tk].result.updated[i].before # task[tk].result.updated[i].after

C11_ChangeImpliesApplied ==
    \A tk \in Tasks : HasChanged(tk) => Applied(webhook_event, EventKey(task[tk].n))

\* The half of C11 that the code keeps: the Square handlers commit both at
\* once (lines 259-260 and 344-345).
C11_SquareChangeImpliesApplied ==
    \A tk \in Tasks :
        (task[tk].n.channel = "square" /\ HasChanged(tk))
            => Applied(webhook_event, EventKey(task[tk].n))

\* An eBay sale was aborted in set_stock_exact, came again, and was taken from
\* the stock a second time.
C11_AbortedSaleAppliedTwice ==
    \E t1, t2 \in Tasks :
        /\ t1 # t2
        /\ task[t1].n = task[t2].n
        /\ task[t1].n.kind = "FixedPriceTransaction"
        /\ task[t1].pc = "done" /\ task[t1].result.action = "raised"
        /\ task[t1].result.updated = <<Change("A", 3, 1)>>
        /\ task[t2].pc = "done" /\ task[t2].result.action = "applied"
        /\ task[t2].result.updated = <<Change("A", 1, 0)>>

(***************************************************************************)
(* C12.  Marking an event applied does not wait for propagation: while a   *)
(* task waits for the set-quantity call that carries the change of its     *)
(* event to the other channel, the event is already applied.               *)
(***************************************************************************)
InPush(tk) == task[tk].pc \in {"ebay_push", "square_set_stock"}

C12_AppliedBeforePush ==
    \A tk \in Tasks :
        (InPush(tk) /\ HasChanged(tk)) => Applied(webhook_event, EventKey(task[tk].n))

\* The half of C12 that the code keeps: the Square handlers commit applied =
\* true before they await the eBay update.
C12_SquareAppliedBeforePush ==
    \A tk \in Tasks :
        (task[tk].pc = "ebay_push" /\ HasChanged(tk))
            => Applied(webhook_event, EventKey(task[tk].n))

\* A call to Square that never returned: the task is gone, on_hand keeps the
\* new value and the event is not applied.
C12_PushNeverReturned ==
    \E tk \in Tasks :
        /\ task[tk].pc = "done"
        /\ task[tk].n.channel = "ebay"
        /\ task[tk].calls # <<>> /\ task[tk].calls[1].outcome = "aborted"
        /\ HasChanged(tk)
        /\ inventory[task[tk].result.updated[1].sku].on_hand = task[tk].result.updated[1].after
        /\ ~Applied(webhook_event, EventKey(task[tk].n))

(***************************************************************************)
(* C13.  No lost update per sku: when two events with different event ids  *)
(* for one sku, each a sale or an absolute revision, are the only ones     *)
(* delivered and both have written the row, each wrote what its event      *)
(* yields from the on_hand it read, one of them read what the other wrote, *)
(* and on_hand is what that later one wrote.                               *)
(***************************************************************************)
OneSku(n) == IsSale(n) \/ (IsRestatement(n) /\ RestatedSkus(n) # {})

EventSku(n) == IF IsSale(n) THEN SaleSku(n) ELSE CHOOSE s \in RestatedSkus(n) : TRUE

Effect(n, h) == IF IsSale(n) THEN Max(h - SaleQty(n), 0) ELSE Candidate(n)

HasWritten(tk) == task[tk].result.updated # <<>>

C13_NoLostUpdate ==
    \A t1, t2 \in Tasks :
        (/\ t1 # t2
         /\ delivered = 2
         /\ EventKey(task[t1].n) # EventKey(task[t2].n)
         /\ OneSku(task[t1].n) /\ OneSku(task[t2].n)
         /\ EventSku(task[t1].n) = EventSku(task[t2].n)
         /\ HasWritten(t1) /\ HasWritten(t2))
        => LET c1 == task[t1].result.updated[1]
               c2 == task[t2].result.updated[1]
               on_hand == inventory[EventSku(task[t1].n)].on_hand
           IN  /\ c1.after = Effect(task[t1].n, c1.before)
               /\ c2.after = Effect(task[t2].n, c2.before)
               /\ \/ c2.before = c1.after /\ on_hand = c2.after
                  \/ c1.before = c2.after /\ on_hand = c1.after

\* While the task of a sale was still waiting for its push, an absolute
\* revision of the same sku was applied to the on_hand the sale had left.
C13_Witness ==
    \E t1, t2 \in Tasks :
        /\ IsSale(task[t1].n) /\ IsRestatement(task[t2].n)
        /\ InPush(t1) /\ HasChanged(t1)
        /\ task[t2].pc = "done" /\ HasChanged(t2)
        /\ task[t2].result.updated[1].sku = task[t1].result.updated[1].sku
        /\ task[t2].result.updated[1].before = task[t1].result.updated[1].after

\* The same with a second sale, on the other channel.
C13_WitnessTwoSales ==
    \E t1, t2 \in Tasks :
        /\ IsSale(task[t1].n) /\ IsSale(task[t2].n)
        /\ EventKey(task[t1].n) # EventKey(task[t2].n)
        /\ InPush(t1) /\ HasChanged(t1)
        /\ task[t2].pc = "done" /\ HasChanged(t2)
        /\ task[t2].result.updated[1].before = task[t1].result.updated[1].after

(***************************************************************************)
(* C14.  No infinite ping-pong: in the closed loop, after the one external *)
(* change, with every successful set-quantity call reported back by the    *)
(* channel as a notification that restates the quantity, the channels      *)
(* receive at most one quantity write and send at most two echoes, and the *)
(* loop comes to rest: from some point on no notification is pending and   *)
(* no task is running.                                                     *)
(***************************************************************************)
Quiescent ==
    /\ channels.pending = {}
    /\ \A tk \in Tasks : task[tk].pc \in {"idle", "done"}

C14_WitnessSquare ==
    /\ Quiescent
    /\ now <= ECHO_WINDOW
    /\ channels.changed /\ channels.writes = 1 /\ channels.echoes = 2
    /\ channels.square["A"] = channels.ebay["A"]
    /\ inventory["A"].on_hand = channels.ebay["A"]

C16_ParseFailureNoTrace ==
    [][\A tk \in Tasks :
         (Steps(tk) /\ task[tk].pc = "scheduled" /\ task[tk].n.channel = "ebay" /\ task[tk].n.malformed)
            => /\ webhook_event' = webhook_event
               /\ inventory' = inventory
               /\ task'[tk].pc = "done"
               /\ task'[tk].calls = <<>>
               /\ task'[tk].result.action = "parse_failed"]_vars

\* The unparsable body was dropped, no row exists for its correlation id,
\* and the well-formed notification with that id is about to be processed.
C16_Witness ==
    \E t1, t2 \in Tasks :
        /\ task[t1].pc = "done" /\ task[t1].result.action = "parse_failed"
        /\ EventKey(task[t1].n) \notin DOMAIN webhook_event
        /\ EventKey(task[t2].n) = EventKey(task[t1].n)
        /\ ~task[t2].n.malformed
        /\ FirstTime(t2)

\* And it has been applied.
C16_WitnessApplied ==
    \E t1, t2 \in Tasks :
        /\ task[t1].pc = "done" /\ task[t1].result.action = "parse_failed"
        /\ EventKey(task[t2].n) = EventKey(task[t1].n)
        /\ task[t2].pc = "done" /\ task[t2].result.action = "applied" /\ HasChanged(t2)

(***************************************************************************)
(* C17.  The signature gate of the Square endpoint: a request whose        *)
(* signature header is missing or is not the signature of the body under   *)
(* the configured key and url, or that comes while no key or no url is     *)
(* configured, is answered 401; no task is scheduled for it and no row of  *)
(* webhook_event or inventory is created or changed.                       *)
(***************************************************************************)
Authentic(req) ==
    LET key == Strip(endpoint.settings.square_webhook_signature_key)
        url == Strip(endpoint.settings.square_webhook_notification_url)
    IN  /\ req.signature # None
        /\ key # "" /\ url # ""
        /\ Val(req.signature) = Sign(key, url, req.body.raw)

C17_SignatureGate ==
    [][\A req \in SquareRequests :
         (SquareWebhook(req) /\ ~Authentic(req))
            => /\ endpoint'.status = 401
               /\ UNCHANGED <<task, delivered, webhook_event, inventory>>]_vars

\* What the code keeps of C17: such a request is never processed; it is
\* answered 401, or 500 when its body does not decode.
C17_NeverProcessed ==
    [][\A req \in SquareRequests :
         (SquareWebhook(req) /\ ~Authentic(req))
            => /\ endpoint'.status \in {401, 500}
               /\ UNCHANGED <<task, delivered, webhook_event, inventory>>]_vars

\* A request has been answered 500.
C17_ServerError == endpoint.status = 500

(***************************************************************************)
(* C18.  Acknowledgement is independent of reconciliation: an endpoint     *)
(* that accepts a payload answers 200 while the task is only scheduled and *)
(* no row has been touched; no step of a task changes a response; the      *)
(* Square endpoint answers other than 200 only to a request with a bad or  *)
(* missing signature or without an event id, and the eBay endpoint always  *)
(* answers 200.                                                            *)
(***************************************************************************)
Running(tk) == task[tk].pc \notin {"idle", "done"}

C18_AckIndependent ==
    [][/\ \A req \in SquareRequests :
            SquareWebhook(req)
               => /\ endpoint'.status # 200 => (~Authentic(req) \/ req.body.n.event_id = "")
                  /\ inventory' = inventory /\ webhook_event' = webhook_event
                  /\ \A tk \in Tasks :
                        Steps(tk) => task'[tk].pc = "scheduled" /\ endpoint'.status = 200
       /\ \A n \in EbayBodies :
            EbayPlatformWebhook(n)
               => /\ endpoint'.status = 200
                  /\ inventory' = inventory /\ webhook_event' = webhook_event
                  /\ \E tk \in Tasks : Steps(tk) /\ task'[tk].pc = "scheduled"
       /\ (\E tk \in Tasks : Steps(tk) /\ Running(tk)) => endpoint' = endpoint]_vars

\* Both endpoints answered 200; afterwards the retrieval of the Square order
\* raised and the eBay body turned out not to parse.
C18_Witness ==
    \E t1, t2 \in Tasks :
        /\ endpoint.status = 200
        /\ task[t1].n.channel = "square"
        /\ task[t1].pc = "done" /\ task[t1].result.action = "raised"
        /\ task[t2].n.channel = "ebay"
        /\ task[t2].pc = "done" /\ task[t2].result.action = "parse_failed"

\* C19: at any moment at most one token request of a cache is awaiting its
\* answer: callers that find no usable token while a refresh is in flight wait
\* for that refresh instead of starting another.
C19_SingleFlight ==
    \A c \in Caches : InFlight(c) <= 1

\* C19: two callers that overlapped in time hold the same token (reached when
\* the second caller found the token the first one's refresh had stored).
C19_SharedToken ==
    \E t1, t2 \in Tasks :
        /\ t1 # t2
        /\ task[t1].pc = "returned" /\ task[t2].pc = "returned"
        /\ task[t1].cache = task[t2].cache
        /\ task[t1].token = task[t2].token

\* C19: two callers that both started before either request was answered each
\* hold a token of their own, and the cache keeps the later answer.
C19_TwoRefreshes ==
    \E t1, t2 \in Tasks :
        /\ t1 # t2
        /\ task[t1].pc = "returned" /\ task[t2].pc = "returned"
        /\ task[t1].cache = task[t2].cache
        /\ task[t1].started = task[t2].started
        /\ task[t1].token # task[t2].token

\* A task that ended by skipping its notification as one already applied
Skipped(tk) ==
    /\ task[tk].pc = "done"
    /\ task[tk].result.action \in {"already_applied", "duplicate_ignored"}

\* C20: event_id is unique per logical event: two different notifications
\* never have the same key in webhook_event, and a notification is skipped as
\* a duplicate only when the same notification was delivered before.
C20_UniquePerEvent ==
    /\ \A t1, t2 \in Tasks :
         (/\ task[t1].n # NoNotification /\ task[t2].n # NoNotification
          /\ task[t1].n # task[t2].n)
            => EventKey(task[t1].n) # EventKey(task[t2].n)
    /\ \A tk \in Tasks :
         Skipped(tk) => \E other \in Tasks \ {tk} : task[other].n = task[tk].n

\* C20: a second eBay sale without CorrelationID, of the same item as a first
\* one that was applied, was skipped as a duplicate: the stock still shows
\* the first sale only.
C20_SecondSaleSkipped ==
    \E t1, t2 \in Tasks :
        /\ task[t1].n.kind = "FixedPriceTransaction" /\ task[t2].n.kind = "FixedPriceTransaction"
        /\ task[t1].n.event_id = "" /\ task[t2].n.event_id = ""
        /\ task[t1].n.quantity_purchased # task[t2].n.quantity_purchased
        /\ task[t1].pc = "done" /\ task[t1].result.action = "applied"
        /\ Skipped(t2)
        /\ OnHand(inventory, "A") = SaleAfter(CHOOSE a \in InitOnHand : \A b \in InitOnHand : a >= b,
                                   Val(task[t1].n.quantity_purchased))

\* C20: a Square count whose event id is also the CorrelationID of an eBay
\* revision that was applied was skipped as already applied, or the other way
\* round.
C20_CrossChannelSkipped ==
    \E t1, t2 \in Tasks :
        /\ task[t1].n.channel # task[t2].n.channel
        /\ task[t1].n.event_id = task[t2].n.event_id
        /\ task[t1].pc = "done" /\ ~Skipped(t1)
        /\ Skipped(t2)

\* C21: the flags of a webhook_event row only ever change from false to true
\* and a row once created is never removed, whatever the interleaving of the
\* tasks and the outcomes of their pushes.
C21_FlagsMonotonic ==
    [][\A id \in DOMAIN webhook_event :
         /\ id \in DOMAIN webhook_event'
         /\ webhook_event[id].applied_inventory => webhook_event'[id].applied_inventory
         /\ webhook_event[id].ebay_synced => webhook_event'[id].ebay_synced]_vars

\* C21: the part that holds: rows stay and applied_inventory is never reset.
C21_AppliedMonotonic ==
    [][\A id \in DOMAIN webhook_event :
         /\ id \in DOMAIN webhook_event'
         /\ webhook_event[id].applied_inventory => webhook_event'[id].applied_inventory]_vars

\* C21: two tasks processed the same Square event; the bulk push of one
\* succeeded, the push of the other failed afterwards, and the row ends with
\* ebay_synced = false although eBay was updated.
C21_SyncedReset ==
    \E t1, t2 \in Tasks :
        /\ t1 # t2
        /\ task[t1].n = task[t2].n /\ task[t1].n.channel = "square"
        /\ task[t1].pc = "done" /\ task[t1].result.ebay_synced
        /\ task[t2].pc = "done" /\ task[t2].result.action = "applied" /\ ~task[t2].result.ebay_synced
        /\ task[t2].calls # <<>>
        /\ ~webhook_event[EventKey(task[t1].n)].ebay_synced

\* The event computes, for its one sku, the quantity the row already holds,
\* and the echo rule does not apply to it.
SameValue(n) ==
    /\ n.kind # "order"
    /\ OneSku(n)
    /\ Effect(n, OnHand(inventory, EventSku(n))) = OnHand(inventory, EventSku(n))
    /\ ~(IsRestatement(n) /\ IsEcho(n, EventSku(n)))

\* C22: a first-time Square inventory event, eBay ItemRevised or eBay
\* FixedPriceTransaction whose computed quantity equals the current on_hand,
\* and which is not an echo, still sets last_source to its channel and
\* last_source_at to now, is marked applied, and issues no set-quantity call.
C22_SameValueConfirmsSource ==
    [][\A tk \in Tasks :
         (Steps(tk) /\ FirstTime(tk) /\ ~task[tk].n.malformed /\ SameValue(task[tk].n))
            => LET sku == EventSku(task[tk].n)
               IN  /\ sku \in DOMAIN inventory'
                   /\ inventory'[sku].on_hand = OnHand(inventory, sku)
                   /\ inventory'[sku].last_source = task[tk].n.channel
                   /\ inventory'[sku].last_source_at = Some(now)
                   /\ task'[tk].calls = <<>>
                   /\ Applied(webhook_event', EventKey(task[tk].n))]_vars

\* C22: what the eBay functions keep of it: the row keeps its quantity and
\* gets last_source = ebay and last_source_at = now.
C22_EbaySameValueMarksSource ==
    [][\A tk \in Tasks :
         (/\ Steps(tk) /\ FirstTime(tk) /\ ~task[tk].n.malformed /\ SameValue(task[tk].n)
          /\ task[tk].n.channel = "ebay"
          /\ ProductMap[EventSku(task[tk].n)].square_variation_id # "")
            => LET sku == EventSku(task[tk].n)
               IN  /\ sku \in DOMAIN inventory'
                   /\ inventory'[sku].on_hand = OnHand(inventory, sku)
                   /\ inventory'[sku].last_source = "ebay"
                   /\ inventory'[sku].last_source_at = Some(now)]_vars

\* C22: a Square count equal to on_hand was processed while the row's
\* last_source was not square: the event is applied and the row still names
\* the earlier source.
C22_SquareSourceNotConfirmed ==
    \E tk \in Tasks :
        /\ task[tk].pc = "done" /\ task[tk].n.kind = "inventory"
        /\ IsRestatement(task[tk].n) /\ RestatedSkus(task[tk].n) # {}
        /\ task[tk].result.action = "applied" /\ task[tk].result.updated = <<>>
        /\ LET sku == CHOOSE x \in RestatedSkus(task[tk].n) : TRUE
           IN  /\ sku \in DOMAIN inventory
               /\ inventory[sku].on_hand = Candidate(task[tk].n)
               /\ inventory[sku].last_source # "square"

\* The sku of an eBay notification whose mapping names a Square variation
EbayMappedSkus(n) ==
    {s \in LookupProductMap(n.sku, n.item_id) : ProductMap[s].square_variation_id # ""}

\* C23: a first-time ItemRevised for a sku mapped to Square that states the
\* quantity Q and the quantity sold S (0 when absent) sets on_hand to
\* max(Q - S, 0) whatever on_hand was, and last_source to ebay; one that
\* states no quantity leaves the inventory alone, issues no call to Square
\* and is marked applied.
C23_RevisionSemantics ==
    [][\A tk \in Tasks : \A sku \in EbayMappedSkus(task[tk].n) :
         (/\ Steps(tk) /\ FirstTime(tk)
          /\ task[tk].n.kind = "ItemRevised" /\ ~task[tk].n.malformed)
            => LET n == task[tk].n
                   S == IF n.quantity_sold = None THEN 0 ELSE Val(n.quantity_sold)
               IN  IF n.quantity # None
                   THEN /\ sku \in DOMAIN inventory'
                        /\ inventory'[sku].on_hand = Max(Val(n.quantity) - S, 0)
                        /\ inventory'[sku].last_source = "ebay"
                   ELSE /\ inventory' = inventory
                        /\ task'[tk].calls = <<>>
                        /\ Applied(webhook_event', EventKey(n))]_vars

\* A revision without QuantitySold raised the stock from 0 to its quantity,
\* and a revision without Quantity was ignored.
C23_Witness ==
    /\ \E tk \in Tasks :
         /\ task[tk].n.kind = "ItemRevised" /\ task[tk].n.quantity = Some(2)
         /\ task[tk].n.quantity_sold = None /\ task[tk].n.sku = "A"
         /\ task[tk].result.action = "applied"
         /\ task[tk].result.updated[1].before = 0
         /\ task[tk].result.updated[1].after = 2
    /\ \E tk \in Tasks :
         /\ task[tk].pc = "done"
         /\ task[tk].result.action = "ignored_missing_quantity"
         /\ Applied(webhook_event, EventKey(task[tk].n))

\* A revision whose quantity sold exceeds its quantity set a stock of 3 to 0.
C23_WitnessClamped ==
    \E tk \in Tasks :
        /\ task[tk].n.kind = "ItemRevised"
        /\ task[tk].n.quantity = Some(1) /\ task[tk].n.quantity_sold = Some(2)
        /\ task[tk].result.action = "applied"
        /\ task[tk].result.updated[1].before = 3
        /\ task[tk].result.updated[1].after = 0
        /\ inventory["A"].on_hand = 0 /\ inventory["A"].last_source = "ebay"

\* C24: a first-time FixedPriceTransaction for a sku mapped to Square with
\* purchased quantity p (0 included) and on_hand n sets on_hand to
\* max(n - p, 0) and last_source to ebay and issues one call that sets Square
\* to max(n - p, 0), and no further call afterwards; one without purchased
\* quantity leaves the inventory alone, issues no call and is marked applied.
C24_SaleSemantics ==
    [][\A tk \in Tasks : \A sku \in EbayMappedSkus(task[tk].n) :
         (/\ Steps(tk)
          /\ task[tk].n.kind = "FixedPriceTransaction" /\ ~task[tk].n.malformed)
            => LET n == task[tk].n
                   after == Max(OnHand(inventory, sku) - Val(n.quantity_purchased), 0)
               IN  IF ~FirstTime(tk)
                   THEN task[tk].pc = "scheduled" \/ task'[tk].calls = <<>>
                                                  \/ Len(task'[tk].calls) = Len(task[tk].calls)
                   ELSE IF n.quantity_purchased # None
                   THEN /\ sku \in DOMAIN inventory'
                        /\ inventory'[sku].on_hand = after
                        /\ inventory'[sku].last_source = "ebay"
                        /\ Len(task'[tk].calls) = 1
                        /\ Pushes(tk, "square", sku, after)
                   ELSE /\ inventory' = inventory
                        /\ task'[tk].calls = <<>>
                        /\ Applied(webhook_event', EventKey(n))]_vars

\* A sale of 2 units met a stock of 3 and its one call to Square, with target
\* 1, returned; a sale without purchased quantity was ignored.
C24_Witness ==
    /\ \E tk \in Tasks :
         /\ task[tk].pc = "done" /\ task[tk].n.kind = "FixedPriceTransaction"
         /\ task[tk].n.quantity_purchased = Some(2)
         /\ task[tk].result.action = "applied"
         /\ task[tk].result.updated[1].before = 3
         /\ task[tk].result.updated[1].after = 1
         /\ Len(task[tk].calls) = 1
         /\ task[tk].calls[1].to = "square"
         /\ task[tk].calls[1].items[1].qty = 1
    /\ \E tk \in Tasks :
         /\ task[tk].pc = "done"
         /\ task[tk].result.action = "ignored_missing_quantity_purchased"
         /\ Applied(webhook_event, EventKey(task[tk].n))

\* A sale of 0 units was processed: the row keeps its quantity, names ebay as
\* its source, and Square was called with that quantity.
C24_WitnessZero ==
    \E tk \in Tasks :
        /\ task[tk].pc = "done" /\ task[tk].n.kind = "FixedPriceTransaction"
        /\ task[tk].n.quantity_purchased = Some(0)
        /\ task[tk].result.action = "applied"
        /\ task[tk].result.updated[1].before = 3
        /\ task[tk].result.updated[1].after = 3
        /\ inventory["A"].last_source = "ebay"
        /\ Len(task[tk].calls) = 1 /\ task[tk].calls[1].items[1].qty = 3

\* The numbers stated by the direct children of an element with that name
DirectNumbers(parent, name) ==
    {IntFloat(StripText(parent.children[i].text)) :
        i \in {j \in DOMAIN parent.children : Local(parent.children[j].tag) = name}} \ {None}

Named(els, name) == {els[i] : i \in {j \in DOMAIN els : Local(els[j].tag) = name}}

\* The task has parsed its document.
Parsed(tk) == task[tk].pc = "parsed"

\* C25: when the Item of the document has a direct child Quantity with value
\* q and a direct child SellingStatus with a QuantitySold of value s, the
\* parser yields quantity = q and quantity_sold = s, whatever Quantity and
\* QuantitySold elements, of whatever namespace, stand before the Item,
\* after it, or deeper inside it.
C25_ScopedExtraction ==
    \A tk \in Tasks :
        Parsed(tk) =>
            \A item \in FirstNode(Val(task[tk].doc), "Item") :
            \A q \in DirectNumbers(item, "Quantity") :
            \A selling_status \in Named(item.children, "SellingStatus") :
            \A sold \in DirectNumbers(selling_status, "QuantitySold") :
                /\ Val(task[tk].ev).quantity = q
                /\ Val(task[tk].ev).quantity_sold = sold

\* A document with a Quantity of 42 before the Item, inside a variation of
\* the Item and after the Item was parsed to quantity 5 and quantity sold 2.
C25_Witness ==
    \E tk \in Tasks :
        /\ Parsed(tk)
        /\ LET doc == Val(task[tk].doc)
               all == Iter(doc)
           IN  /\ \E i, j, k, l \in DOMAIN all :
                     /\ i < j /\ j < k /\ k < l
                     /\ Local(all[i].tag) = "Quantity" /\ all[i].text = <<"4", "2">>
                     /\ Local(all[j].tag) = "Item"
                     /\ Local(all[k].tag) = "Variation"
                     /\ Local(all[l].tag) = "Order"
                     /\ Leaf("urn", "Quantity", <<" ", "5", " ">>) \in Named(all[j].children, "Quantity")
                     /\ Named(all[j].children, "Variations") # {}
                     /\ Named(all[j].children, "SellingStatus") # {}
               /\ Val(task[tk].ev).quantity = Some(5)
               /\ Val(task[tk].ev).quantity_sold = Some(2)

\* Another task is in the middle of processing the same notification.
Concurrent(tk) ==
    \E other \in Tasks \ {tk} :
        /\ task[other].n = task[tk].n
        /\ task[other].pc \in {"retrieve_order", "ebay_push", "ebay_resync", "square_set_stock"}

Suspended(tk) ==
    task[tk].pc \in {"retrieve_order", "ebay_push", "ebay_resync", "square_set_stock"}

\* C27: a handler is suspended only in a propagation call that follows the
\* commit of applied = true: no task is suspended in a network call while
\* its event is not yet marked applied.
C27_NoSuspensionInDecision ==
    \A tk \in Tasks :
        Suspended(tk) => Applied(webhook_event, EventKey(task[tk].n))

\* C27: while a task was suspended between its check of applied and its
\* commit, another task processed an event of the same sku to its end and
\* changed the row.
C27_OtherTaskRanInBetween ==
    \E t1, t2 \in Tasks :
        /\ t1 # t2
        /\ Suspended(t1) /\ ~Applied(webhook_event, EventKey(task[t1].n))
        /\ OneSku(task[t1].n) /\ OneSku(task[t2].n)
        /\ EventSku(task[t1].n) = EventSku(task[t2].n)
        /\ task[t2].pc = "done" /\ HasWritten(t2)

\* C27: the handler of Square inventory events has no such suspension: its
\* tasks are suspended only with the event applied.
C27_SquareInventoryNotSuspended ==
    \A tk \in Tasks :
        (Suspended(tk) /\ task[tk].n.kind = "inventory")
            => Applied(webhook_event, EventKey(task[tk].n))

\* A set-quantity call of the task succeeded.
PushSucceeded(tk) ==
    \E i \in DOMAIN task[tk].calls : task[tk].calls[i].outcome = "ok"

\* The task has processed, to its end, the only notification delivered.
OnlyEventProcessed(tk) ==
    /\ delivered = 1
    /\ task[tk].pc = "done"
    /\ EventKey(task[tk].n) \in DOMAIN webhook_event

\* C28: after an event of either channel is fully processed, its ebay_synced
\* flag is true exactly when a set-quantity call to the other channel
\* succeeded for it.
C28_SyncedIffPushed ==
    \A tk \in Tasks :
        OnlyEventProcessed(tk)
            => (webhook_event[EventKey(task[tk].n)].ebay_synced <=> PushSucceeded(tk))

\* C28: an eBay event was applied and its call to Square succeeded, and its
\* row says ebay_synced = false.
C28_EbayPushedNotSynced ==
    \E tk \in Tasks :
        /\ OnlyEventProcessed(tk)
        /\ task[tk].n.channel = "ebay"
        /\ task[tk].result.action = "applied" /\ task[tk].result.square = "updated"
        /\ PushSucceeded(tk)
        /\ ~webhook_event[EventKey(task[tk].n)].ebay_synced

\* C28: a Square event of an unmapped variation issued no call, and its row
\* says ebay_synced = true.
C28_SquareSyncedWithoutPush ==
    \E tk \in Tasks :
        /\ OnlyEventProcessed(tk)
        /\ task[tk].n.channel = "square"
        /\ Unmapped(task[tk].n)
        /\ task[tk].calls = <<>>
        /\ webhook_event[EventKey(task[tk].n)].ebay_synced

\* The first Item of the document has no direct child of that name with a
\* text, or the document has no Item.
NotInItem(doc, name) ==
    \A item \in FirstNode(doc, "Item") :
        \A c \in Named(item.children, name) : ~HasText(c)

\* C29: when the Item has no direct child Quantity (or there is no Item) and
\* a Quantity with a text stands elsewhere in the document, the parser yields
\* the value of the first such Quantity; likewise for QuantitySold when the
\* Item has no SellingStatus with a QuantitySold.
C29_UnscopedFallback ==
    \A tk \in Tasks :
        Parsed(tk) =>
            LET doc == Val(task[tk].doc)
                ev == Val(task[tk].ev)
            IN  /\ (NotInItem(doc, "Quantity") /\ FindAnyText(doc, "Quantity") # None)
                      => ev.quantity = QuantityOf(FindAnyText(doc, "Quantity"))
                /\ (ItemQuantitySoldText(doc) = None /\ FindAnyText(doc, "QuantitySold") # None)
                      => ev.quantity_sold = QuantityOf(FindAnyText(doc, "QuantitySold"))

\* C29: a document without Item, with a Quantity of 42 elsewhere, was parsed
\* to a quantity that is absent.
C29_QuantityAbsent ==
    \E tk \in Tasks :
        /\ Parsed(tk)
        /\ FirstNode(Val(task[tk].doc), "Item") = None
        /\ FindAnyText(Val(task[tk].doc), "Quantity") = Some(<<"4", "2">>)
        /\ Val(task[tk].ev).quantity = None
        /\ Val(task[tk].ev).quantity_sold = None

\* The texts of the QuantityPurchased elements of a document, in document
\* order
PurchasedTexts(doc) ==
    LET els == SelectSeq(Iter(doc), LAMBDA el : Local(el.tag) = "QuantityPurchased")
    IN  [i \in DOMAIN els |-> StripText(els[i].text)]

\* C30: quantity_purchased is the sum of the QuantityPurchased elements of
\* the document whose text is a number, wherever they stand, and it is absent
\* (not 0) exactly when there is no such element; a single QuantityPurchased
\* of 0 gives 0.
C30_PurchasedSum ==
    \A tk \in Tasks :
        Parsed(tk) =>
            LET numbers == SelectSeq(PurchasedTexts(Val(task[tk].doc)),
                                     LAMBDA txt : IntFloat(txt) # None)
                purchased == Val(task[tk].ev).quantity_purchased
            IN  /\ purchased = None <=> numbers = <<>>
                /\ numbers # <<>>
                     => purchased = Some(SumSeq([i \in DOMAIN numbers |-> Val(IntFloat(numbers[i]))]))
                /\ PurchasedTexts(Val(task[tk].doc)) = << <<"0">> >> => purchased = Some(0)

\* A document with the single QuantityPurchased 0 was parsed to 0.
C30_Witness ==
    \E tk \in Tasks :
        /\ Parsed(tk)
        /\ PurchasedTexts(Val(task[tk].doc)) = << <<"0">> >>
        /\ Val(task[tk].ev).quantity_purchased = Some(0)

\* A document with the purchases 1.5 and 2 was parsed to 3, and one with a
\* purchase that is no number next to a purchase of 3 to 3.
C30_WitnessSum ==
    \E tk \in Tasks :
        /\ Parsed(tk)
        /\ \/ /\ PurchasedTexts(Val(task[tk].doc)) = << <<"1", ".", "5">>, <<"2">> >>
              /\ Val(task[tk].ev).quantity_purchased = Some(3)
           \/ /\ PurchasedTexts(Val(task[tk].doc)) = << <<"abc">>, <<"3">> >>
              /\ Val(task[tk].ev).quantity_purchased = Some(3)

\* A document whose only QuantityPurchased is no number was parsed to an
\* absent purchased quantity.
C30_WitnessAbsent ==
    \E tk \in Tasks :
        /\ Parsed(tk)
        /\ PurchasedTexts(Val(task[tk].doc)) = << <<"abc">> >>
        /\ Val(task[tk].ev).quantity_purchased = None

\* The counts a payload object holds, under whichever of its keys
PayloadCounts(obj) ==
    IF obj.inventory_counts # None /\ Val(obj.inventory_counts) # <<>> THEN Val(obj.inventory_counts)
    ELSE IF obj.inventoryCounts # None THEN Val(obj.inventoryCounts)
    ELSE IF obj.inventory_count # None THEN <<Val(obj.inventory_count)>>
    ELSE IF obj.inventoryCount # None THEN <<Val(obj.inventoryCount)>>
    ELSE <<>>

CatalogId(c) == IF c.catalog_object_id # "" THEN c.catalog_object_id ELSE c.catalogObjectId

\* The task was given a payload whose counts include one for the variation
\* whose quantity is absent or no number, in state IN_STOCK.
UnparsedCountFor(tk, var_id) ==
    \E i \in DOMAIN PayloadCounts(task[tk].object) :
        LET c == PayloadCounts(task[tk].object)[i]
        IN  /\ c.kind = "dict" /\ CatalogId(c) = var_id
            /\ c.state = "IN_STOCK"
            /\ c.quantity \in UnparsedQuantities

\* C31: every count of a Square inventory payload that is a dict with a
\* catalog object id is extracted, under either spelling of the keys and in
\* the list and the singular shape, and with quantity 0 when its quantity is
\* absent or no number; such a count in state IN_STOCK for a sku on both
\* channels with on_hand > 0 sets on_hand to 0 and puts 0 into the eBay
\* update.
C31_BatchTolerance ==
    /\ [](\A tk \in Tasks :
            task[tk].pc # "idle" =>
                LET counts == PayloadCounts(task[tk].object)
                    entries == task[tk].n.entries
                IN  \A i \in DOMAIN counts :
                        (counts[i].kind = "dict" /\ CatalogId(counts[i]) # "")
                            => \E j \in DOMAIN entries :
                                  /\ entries[j].id = CatalogId(counts[i])
                                  /\ entries[j].state = counts[i].state
                                  /\ counts[i].quantity \in UnparsedQuantities => entries[j].qty = 0)
    /\ [][\A tk \in Tasks : \A sku \in DOMAIN ProductMap :
            (/\ Steps(tk) /\ FirstTime(tk)
             /\ OnBothChannels(sku)
             /\ UnparsedCountFor(tk, ProductMap[sku].square_variation_id)
             /\ OnHand(inventory, sku) > 0)
               => /\ inventory'[sku].on_hand = 0
                  /\ inventory'[sku].last_source = "square"
                  /\ Pushes(tk, "ebay", sku, 0)]_vars

\* A list with a count of 1 for vB and a count for vA whose quantity is
\* "abc" was processed with 3 on hand of A: A is at 0, B at 1, and the update
\* that set the eBay offer of A to 0 succeeded.
C31_Witness ==
    \E tk \in Tasks :
        /\ task[tk].pc = "done"
        /\ PayloadCounts(task[tk].object) =
              << Count("vB", "", "IN_STOCK", QInt(1)), Count("vA", "", "IN_STOCK", QStr(<<"abc">>)) >>
        /\ task[tk].result.updated = <<Change("B", 0, 1), Change("A", 3, 0)>>
        /\ inventory["A"].on_hand = 0 /\ inventory["B"].on_hand = 1
        /\ task[tk].calls = <<[to |-> "ebay", items |-> <<Item("A", 0)>>, outcome |-> "ok"]>>

\* The same for the singular shape with camelCase keys and no quantity.
C31_WitnessSingular ==
    \E tk \in Tasks :
        /\ task[tk].pc = "done"
        /\ task[tk].object.inventoryCount = Some(Count("", "vA", "IN_STOCK", QAbsent))
        /\ task[tk].result.updated = <<Change("A", 1, 0)>>
        /\ inventory["A"].on_hand = 0
        /\ PushSucceeded(tk)

(***************************************************************************)
(* C32.  Mapping resolution order for eBay events.                         *)
(***************************************************************************)
\* The product_map rows whose ebay_listing_id is the item id
ByListing(item_id) == {s \in DOMAIN ProductMap : item_id # "" /\ ProductMap[s].ebay_listing_id = item_id}

\* The notification states what the handlers need to apply it
StatesQuantity(n) ==
    \/ n.kind = "ItemRevised" /\ n.quantity # None
    \/ n.kind = "FixedPriceTransaction" /\ n.quantity_purchased # None

\* The handler applied the notification to this sku and to no other
AppliedTo(tk, sku) ==
    /\ task'[tk].result.action = "applied"
    /\ Len(task'[tk].result.updated) = 1
    /\ task'[tk].result.updated[1].sku = sku
    /\ sku \in DOMAIN inventory' /\ inventory'[sku].last_source = "ebay"
    /\ \A o \in Skus \ {sku} : o \in DOMAIN inventory' <=> o \in DOMAIN inventory
    /\ \A o \in DOMAIN inventory \ {sku} : inventory'[o] = inventory[o]
    /\ Len(task'[tk].calls) = 1 /\ task'[tk].calls[1].items[1].sku = sku

IgnoredNoMapping(tk) ==
    /\ task'[tk].result.action = "ignored_no_mapping"
    /\ inventory' = inventory
    /\ task'[tk].calls = <<>>

\* C32: a first-time eBay notification whose sku has a product_map row is
\* resolved to that row, whatever row its item id names: it is applied to
\* that sku only, or ignored when that row has no Square variation; one
\* without sku is resolved to the row whose ebay_listing_id is its item id,
\* and is ignored when there is none.
C32_SkuFirst ==
    [][\A tk \in Tasks :
         (/\ Steps(tk) /\ FirstTime(tk)
          /\ task[tk].n.channel = "ebay" /\ ~task[tk].n.malformed /\ StatesQuantity(task[tk].n))
            => LET n == task[tk].n IN
               IF n.sku \in DOMAIN ProductMap
               THEN IF ProductMap[n.sku].square_variation_id # ""
                    THEN AppliedTo(tk, n.sku)
                    ELSE IgnoredNoMapping(tk)
               ELSE IF n.sku = ""
               THEN IF \E s \in ByListing(n.item_id) : ProductMap[s].square_variation_id # ""
                    THEN \A s \in ByListing(n.item_id) : AppliedTo(tk, s)
                    ELSE IgnoredNoMapping(tk)
               ELSE TRUE]_vars

\* A revision that names sku A and the item of listing C has been applied to
\* A, and one that names no sku and the item of listing A has been applied to
\* A as well.
C32_Witness ==
    /\ \E tk \in Tasks :
         /\ task[tk].n.sku = "A" /\ task[tk].n.item_id = "iC"
         /\ task[tk].pc = "done" /\ task[tk].result.action = "applied"
         /\ task[tk].result.updated[1].sku = "A"
         /\ inventory["C"].on_hand = 1 /\ inventory["C"].last_source = ""
    /\ \E tk \in Tasks :
         /\ task[tk].n.channel = "ebay" /\ task[tk].n.sku = "" /\ task[tk].n.item_id = "iA"
         /\ task[tk].pc = "done" /\ task[tk].result.action = "applied"
         /\ task[tk].result.updated[1].sku = "A"

(***************************************************************************)
(* C33.  Lazy ledger creation.                                             *)
(***************************************************************************)
\* The step in which the handler of the task applies its event
Applies(tk) ==
    /\ Steps(tk)
    /\ ~task[tk].n.malformed
    /\ \/ task[tk].pc = "scheduled" /\ task[tk].n.kind # "order" /\ FirstTime(tk)
       \/ task[tk].pc = "retrieve_order" /\ task'[tk].result.action = "applied"

\* C33: when a handler applies a sale or a revision of a mapped sku that has
\* no inventory row, the row exists afterwards, with on_hand 0 after a sale
\* of any size and max(Q, 0) after a revision that asks for Q (for eBay, Q
\* is the quantity less the quantity sold); and no step removes an
\* inventory row.
C33_LazyCreation ==
    [][/\ \A sku \in DOMAIN inventory : sku \in DOMAIN inventory'
       /\ \A tk \in Tasks :
            (/\ Applies(tk) /\ OneSku(task[tk].n)
             /\ EventSku(task[tk].n) \notin DOMAIN inventory
             /\ task[tk].n.channel = "ebay" => ProductMap[EventSku(task[tk].n)].square_variation_id # "")
               => LET n == task[tk].n
                      sku == EventSku(n)
                  IN  /\ sku \in DOMAIN inventory'
                      /\ IF IsSale(n)
                         THEN inventory'[sku].on_hand = 0
                         ELSE IF n.kind = "inventory"
                         THEN inventory'[sku].on_hand = Max(n.entries[1].qty, 0)
                         ELSE inventory'[sku].on_hand =
                                Max(Val(n.quantity) - (IF n.quantity_sold = None THEN 0
                                                       ELSE Val(n.quantity_sold)), 0)]_vars

\* A Square sale of 2 units and an eBay revision to 3 less 1 sold have each
\* been the first event of a sku without row: B's row holds 0 after its
\* sale, and A's row was created by the revision at 2.
C33_Witness ==
    /\ \E tk \in Tasks :
         /\ task[tk].n.event_id = "sq-z2" /\ task[tk].pc = "done"
         /\ task[tk].result.updated = <<Change("B", 0, 0)>>
         /\ "B" \in DOMAIN inventory /\ inventory["B"].on_hand = 0
    /\ \E tk \in Tasks :
         /\ task[tk].n.event_id = "eb-z2" /\ task[tk].pc = "done"
         /\ task[tk].result.updated = <<Change("A", 0, 2)>>
         /\ inventory["A"].on_hand = 2

\* An eBay sale of 2 units has been the first event of A: its row holds 0
\* and names ebay as its source.
C33_WitnessEbaySale ==
    \E tk \in Tasks :
        /\ task[tk].n.event_id = "eb-z1" /\ task[tk].pc = "done"
        /\ task[tk].result.updated = <<Change("A", 0, 0)>>
        /\ inventory["A"].on_hand = 0 /\ inventory["A"].last_source = "ebay"

C34_NegativeCommitted ==
    \E tk \in Tasks :
        /\ task[tk].pc = "done" /\ task[tk].n.kind = "upsert"
        /\ task[tk].result.action = "upserted"
        /\ Val(task[tk].n.quantity) < 0
        /\ inventory[task[tk].n.sku].on_hand = Val(task[tk].n.quantity)

\* What the inbound events keep by themselves: a handler of a notification
\* never writes a negative on_hand.
C34_EventsKeepNonNegative ==
    [][\A tk \in Tasks :
         (Steps(tk) /\ task[tk].n.kind # "upsert")
            => \A sku \in DOMAIN inventory' :
                 (sku \notin DOMAIN inventory \/ inventory'[sku] # inventory[sku])
                    => inventory'[sku].on_hand >= 0]_vars

(***************************************************************************)
(* C35.  Resync failure is safe and retryable.                             *)
(***************************************************************************)
\* The event of the task is applied and not synced
AwaitsResync(ev, tk) ==
    /\ Applied(ev, EventKey(task[tk].n))
    /\ ~ev[EventKey(task[tk].n)].ebay_synced

\* The bulk push of the task did not return
ResyncFailed(tk) ==
    /\ task[tk].pc = "done" /\ task[tk].n.channel = "square"
    /\ task[tk].result.action = "raised"
    /\ task[tk].calls # <<>> /\ task[tk].calls[1].outcome \in {"failed", "aborted"}

\* C35: when the bulk push of a redelivered Square event does not return,
\* no inventory row and no event row changes, so the event stays applied and
\* not synced; and a task that starts on a Square event that is applied and
\* not synced issues the bulk push of every offer at its on_hand.
C35_ResyncRetryable ==
    [][\A tk \in Tasks :
         /\ (Steps(tk) /\ task[tk].pc = "ebay_resync" /\ task'[tk].result.action = "raised")
               => /\ inventory' = inventory
                  /\ webhook_event' = webhook_event
                  /\ Applied(webhook_event', EventKey(task[tk].n))
         /\ (/\ Steps(tk) /\ task[tk].pc = "scheduled" /\ task[tk].n.channel = "square"
             /\ EventKey(task[tk].n) \in DOMAIN webhook_event /\ AwaitsResync(webhook_event, tk))
               => /\ task'[tk].pc = "ebay_resync"
                  /\ task'[tk].calls = <<EbayCall(SyncAllEbayOffersFromDb(inventory))>>
                  /\ inventory' = inventory
                  /\ AwaitsResync(webhook_event', tk)]_vars

\* The bulk push of a redelivery has failed, the event is applied and not
\* synced, and the task of a further redelivery of it waits for its own bulk
\* push.
C35_Witness ==
    \E t1, t2 \in Tasks :
        /\ t1 # t2 /\ task[t1].n = task[t2].n
        /\ ResyncFailed(t2) /\ task[t2].calls[1].outcome = "failed"
        /\ AwaitsResync(webhook_event, t2)
        /\ task[t1].pc = "ebay_resync"
        /\ delivered = 3

(***************************************************************************)
(* C36.  Only IN_STOCK counts move the ledger.                             *)
(***************************************************************************)
NotInStock(ch) == ch.state # "" /\ ch.state # "IN_STOCK"

RECURSIVE InStockOnly(_)
InStockOnly(changes) ==
    IF changes = <<>> THEN <<>>
    ELSE IF NotInStock(Head(changes)) THEN InStockOnly(Tail(changes))
    ELSE <<Head(changes)>> \o InStockOnly(Tail(changes))

\* C36: a first-time Square inventory event does to the inventory, reports
\* and sends to eBay what the same event without its counts in a state other
\* than IN_STOCK would; when it has no other counts, no inventory row
\* changes or appears and nothing is sent; and the event is marked applied.
C36_OnlyInStock ==
    [][\A tk \in Tasks :
         (Steps(tk) /\ FirstTime(tk) /\ task[tk].n.kind = "inventory")
            => LET n == task[tk].n
                   st == ApplyChanges(inventory, InStockOnly(n.entries), now)
               IN  /\ inventory' = st.inv
                   /\ task'[tk].result.updated = st.updated
                   /\ task'[tk].calls = IF st.items = <<>> THEN <<>> ELSE <<EbayCall(st.items)>>
                   /\ Applied(webhook_event', EventKey(n))
                   /\ (\A i \in DOMAIN n.entries : NotInStock(n.entries[i]))
                         => /\ inventory' = inventory
                            /\ task'[tk].calls = <<>>
                            /\ task'[tk].result.updated = <<>>]_vars

\* An event with one SOLD count of 2 has been applied with on_hand of A left
\* at 3, and an event with a WASTE count of 2 and an IN_STOCK count of 1 has
\* set A to 1 and sent eBay that 1 only.
C36_Witness ==
    /\ \E tk \in Tasks :
         /\ task[tk].n.event_id = "sq-s2" /\ task[tk].pc = "done"
         /\ task[tk].result.updated = <<Change("A", 3, 1)>>
         /\ task[tk].calls[1].items = <<Item("A", 1)>>
    /\ \E tk \in Tasks :
         /\ task[tk].n.event_id = "sq-s1" /\ task[tk].pc = "done"
         /\ task[tk].result.action = "applied" /\ task[tk].result.updated = <<>>
         /\ task[tk].calls = <<>>
         /\ Applied(webhook_event, EventKey(task[tk].n))
         /\ inventory["A"].on_hand = 1

\* An event with one SOLD count of 2 met a stock of 3 and left the row of A
\* as it was.
C36_WitnessUntouched ==
    \E tk \in Tasks :
        /\ task[tk].n.event_id = "sq-s1" /\ task[tk].pc = "done"
        /\ Applied(webhook_event, EventKey(task[tk].n))
        /\ inventory["A"] = [NewInventory EXCEPT !.on_hand = 3]
        /\ delivered = 1

(***************************************************************************)
(* C37.  Events are SKU-local.                                             *)
(***************************************************************************)
\* The skus the handler resolves from a notification: those of the mapped
\* variations of its lines or counts, or the one its sku or item id names.
ResolvedSkus(n) ==
    IF n.channel = "square"
    THEN UNION {PmBySquareVariation(n.entries[i].id) : i \in DOMAIN n.entries}
    ELSE LookupProductMap(n.sku, n.item_id)

\* The row of the sku, or the lack of it, is the same before and after
RowUntouched(sku) ==
    /\ sku \in DOMAIN inventory' <=> sku \in DOMAIN inventory
    /\ sku \in DOMAIN inventory => inventory'[sku] = inventory[sku]

\* C37: no step of a handler changes, creates or removes the inventory row
\* of a sku that its notification does not resolve to; only the handler's
\* own step changes the inventory at all.
C37_SkuLocal ==
    [][/\ \A tk \in Tasks :
            (Steps(tk) /\ Running(tk))
               => \A sku \in Skus \ ResolvedSkus(task[tk].n) : RowUntouched(sku)
       /\ (\A tk \in Tasks : ~(Steps(tk) /\ Running(tk))) => inventory' = inventory]_vars

\* A Square event with counts for A and B has written both rows and an eBay
\* sale has written the row of A, and the row of C is as it was at the
\* start.
C37_Witness ==
    /\ \E tk \in Tasks :
         /\ task[tk].n.event_id = "sq-i2" /\ task[tk].pc = "done"
         /\ Len(task[tk].result.updated) = 2
         /\ task[tk].result.updated[1].sku = "A" /\ task[tk].result.updated[2].sku = "B"
    /\ \E tk \in Tasks :
         /\ task[tk].n.kind = "FixedPriceTransaction" /\ task[tk].pc = "done"
         /\ task[tk].result.updated # <<>> /\ task[tk].result.updated[1].sku = "A"
    /\ inventory["C"] = [NewInventory EXCEPT !.on_hand = 1]
    /\ inventory["A"].last_source # "" /\ inventory["B"].last_source = "square"

(***************************************************************************)
(* C38.  A failed Square order lookup leaves the event retryable.          *)
(***************************************************************************)
\* C38: a task that starts on a payment event that is not applied leaves
\* the inventory alone and waits for the order, with the event row there,
\* not applied and not synced, whether it is the first delivery or a later
\* one; when the retrieval of the order does not return, no inventory row
\* and no event row changes; and when it returns the sale is taken from
\* on_hand and the event is applied.
C38_LookupFailureRetryable ==
    [][\A tk \in Tasks :
         LET n == task[tk].n
             id == EventKey(n)
         IN  /\ (/\ Steps(tk) /\ task[tk].pc = "scheduled" /\ n.kind = "order"
                 /\ ~Applied(webhook_event, id))
                   => /\ task'[tk].pc = "retrieve_order"
                      /\ inventory' = inventory
                      /\ id \in DOMAIN webhook_event'
                      /\ ~webhook_event'[id].applied_inventory
                      /\ ~webhook_event'[id].ebay_synced
             /\ (Steps(tk) /\ task[tk].pc = "retrieve_order" /\ task'[tk].result.action = "raised")
                   => /\ inventory' = inventory
                      /\ webhook_event' = webhook_event
                      /\ id \in DOMAIN webhook_event'
                      /\ task'[tk].calls = <<>>
             /\ (/\ Steps(tk) /\ task[tk].pc = "retrieve_order" /\ task'[tk].result.action = "applied"
                 /\ IsSale(n))
                   => /\ SaleSku(n) \in DOMAIN inventory'
                      /\ inventory'[SaleSku(n)].on_hand = Max(OnHand(inventory, SaleSku(n)) - SaleQty(n), 0)
                      /\ Applied(webhook_event', id)]_vars

\* The order of a payment could not be read; the payment came again, its
\* order was read and its 2 units were taken from a stock of 3.
C38_Witness ==
    \E t1, t2 \in Tasks :
        /\ t1 # t2 /\ task[t1].n = task[t2].n /\ task[t1].n.kind = "order"
        /\ task[t1].pc = "done" /\ task[t1].result.action = "raised" /\ task[t1].calls = <<>>
        /\ task[t2].pc = "done" /\ task[t2].result.action = "applied"
        /\ task[t2].result.updated = <<Change("A", 3, 1)>>
        /\ inventory["A"].on_hand = 1
        /\ Applied(webhook_event, EventKey(task[t1].n))

(***************************************************************************)
(* C39.  Pushes reach the other channel consistently with the ledger.      *)
(***************************************************************************)
\* The task has changed the row of the sku and eBay has answered its update
PushedOk(tk, sku) ==
    /\ task[tk].pc = "done" /\ task[tk].n.channel = "square"
    /\ task[tk].result.updated # <<>> /\ task[tk].result.updated[1].sku = sku
    /\ task[tk].calls # <<>> /\ task[tk].calls[1].outcome = "ok"

\* C39: when two Square events for one sku have been processed, both with a
\* successful eBay push, and nothing else was delivered, eBay holds the
\* on_hand of the sku.
C39_LastPushIsNewest ==
    \A t1, t2 \in Tasks :
        (/\ t1 # t2 /\ delivered = 2
         /\ EventKey(task[t1].n) # EventKey(task[t2].n)
         /\ PushedOk(t1, "A") /\ PushedOk(t2, "A"))
            => channels.ebay["A"] = inventory["A"].on_hand

\* Two counts, of 1 and then of 2, were handled at the same time: the row
\* holds 2, both updates were answered, and eBay holds the 1 of the first.
C39_OlderPushLandedLast ==
    \E t1, t2 \in Tasks :
        /\ t1 # t2
        /\ task[t1].n.event_id = "sq-c1" /\ task[t2].n.event_id = "sq-c2"
        /\ PushedOk(t1, "A") /\ PushedOk(t2, "A")
        /\ task[t1].result.updated[1].after = 1
        /\ task[t2].result.updated[1] = Change("A", 1, 2)
        /\ inventory["A"].on_hand = 2
        /\ channels.ebay["A"] = 1

(***************************************************************************)
(* C40.  An eBay event for a sku whose mapping has no Square variation.    *)
(***************************************************************************)
\* The notification resolves to a product_map row without Square variation
NoVariation(n) ==
    /\ n.channel = "ebay" /\ ~n.malformed
    /\ LookupProductMap(n.sku, n.item_id) # {}
    /\ \A s \in LookupProductMap(n.sku, n.item_id) : ProductMap[s].square_variation_id = ""

\* C40: the handler of an eBay notification that resolves to a mapping
\* without Square variation returns at once, with no inventory row changed
\* and no call issued; the first time its result is that of an unmapped
\* product and the event is marked applied, and every later time it is
\* ignored as a duplicate and the event row is left as it is.
C40_NoVariationIsUnmapped ==
    [][\A tk \in Tasks :
         (Steps(tk) /\ task[tk].pc = "scheduled" /\ NoVariation(task[tk].n))
            => /\ inventory' = inventory
               /\ task'[tk].pc = "done"
               /\ task'[tk].calls = <<>>
               /\ task'[tk].result.updated = <<>>
               /\ Applied(webhook_event', EventKey(task[tk].n))
               /\ IF FirstTime(tk)
                  THEN task'[tk].result.action = "ignored_no_mapping"
                  ELSE /\ task'[tk].result.action = "duplicate_ignored"
                       /\ webhook_event' = webhook_event]_vars

\* A sale of 1 unit of C, which is on eBay only, was ignored and then
\* ignored again as a duplicate; the row of C still holds its 1 unit and no
\* source.
C40_Witness ==
    \E t1, t2 \in Tasks :
        /\ t1 # t2 /\ task[t1].n = task[t2].n
        /\ task[t1].n.event_id = "eb-l8"
        /\ task[t1].pc = "done" /\ task[t1].result.action = "ignored_no_mapping"
        /\ task[t2].pc = "done" /\ task[t2].result.action = "duplicate_ignored"
        /\ task[t1].calls = <<>> /\ task[t2].calls = <<>>
        /\ Applied(webhook_event, EventKey(task[t1].n))
        /\ inventory["C"] = [NewInventory EXCEPT !.on_hand = 1]

====
